---- MODULE Spec2Model ----
(***************************************************************************)
(* Goddess-oracle guidance: the persisted reading journal                  *)
(* (utils/storage.ts), the per-client request limiter of the two           *)
(* generation endpoints (api/generateMessage, api/generateImage), their    *)
(* hardened versions (request validation, suspicion monitoring, provider   *)
(* call, catch block), monitorIP of the security middleware, and the       *)
(* generation runs of MessageModal under the card selection of App.        *)
(*                                                                         *)
(* Strings are tuples of one-character strings, so that escaping and       *)
(* trimming are computed character by character.  null is the tuple Null.  *)
(***************************************************************************)
EXTENDS Integers, Sequences, FiniteSets, TLC

\* ------------------------------------------------------------------ bounds
MaxClock == 2        \* browser clock readings 0..MaxClock (milliseconds)
MaxSaves == 25       \* longest run of saves followed reading by reading
MaxShort == 2        \* journal length up to which every input reading is tried
MaxWindows == 1      \* the server clock runs through this many whole windows
MaxMs == 1           \* and this many single milliseconds within each of them
MaxExcess == 2       \* requests followed beyond the limit within one window
MaxHours == 1        \* the middleware's clock runs through this many whole hours
MaxRuns == 2         \* calls of generateAllContent followed in one session
MaxTimers == 1       \* timeouts of one kind that App has pending at a time

\* ------------------------------------------------------- program constants
HISTORY_LIMIT == 20  \* storage.ts: updatedReadings.length > 20, splice(20)
REDUCED_LIMIT == 10  \* storage.ts: updatedReadings.slice(0, 10)
MESSAGE_RATE_LIMIT == 10     \* generateMessage: RATE_LIMIT
IMAGE_RATE_LIMIT == 5        \* generateImage: RATE_LIMIT
RATE_LIMIT_WINDOW == 60000   \* RATE_LIMIT_WINDOW = 60 * 1000
MAX_ATTEMPTS_PER_HOUR == 100 \* security middleware SECURITY_CONFIG
MAX_FAILED_ATTEMPTS == 10
BLOCK_DURATION == 3600000    \* 1 hour
MAX_CARD_NAME_LENGTH == 100  \* hardened generateMessage SECURITY_CONFIG
MAX_CARD_DESC_LENGTH == 200
MESSAGE_MAX_REQUEST_SIZE == 10000
IMAGE_MAX_REQUEST_SIZE == 5000   \* hardened generateImage SECURITY_CONFIG
MAX_PROMPT_LENGTH == 800
MESSAGE_SUSPICION == 100     \* hardened generateMessage: attempts > 100
IMAGE_SUSPICION == 50        \* hardened generateImage: attempts > 50
HOUR == 3600000              \* (now - lastAttempt) < 3600000

VARIABLES
    storage,   \* localStorage[JOURNAL_KEY] and the state of the storage substrate
    clock,     \* the browser's clock (Date), in milliseconds
    last,      \* the storage call made by the last step, and how it ended
    log,       \* readings handed to saveReading since the journal was last empty
    faulted,   \* some save since then did not complete on its first write
    handler,       \* the endpoint this server instance serves
    rateLimitMap,  \* the endpoint module's rateLimitMap: client -> entry
    now,           \* the server's clock (Date.now()), in milliseconds
    window,        \* per client: start of its current window, requests made in it
    lastReq,       \* the request served by the last step, and the response
    BLOCKED_IPS,     \* security middleware: the permanently blocked addresses
    SUSPICIOUS_IPS,  \* security middleware: address -> attempts, lastAttempt, blocked
    lastMonitor,     \* the monitorIP call made by the last step, and what it returned
    securityLogMap,  \* hardened endpoints: client -> attempts, lastAttempt
    lastIndex,       \* hardened endpoints: lastIndex of each BLOCKED_PATTERNS regex
    served,          \* the request a hardened endpoint served in the last step
    app,       \* App: readingMode, selectedCards, isModalOpen, isShuffling, timers
    modal,     \* MessageModal: its state hooks
    runs       \* the calls of generateAllContent so far, in the order they began

journalVars == <<storage, clock, last, log, faulted>>
serverVars == <<handler, rateLimitMap, now, window, lastReq>>
monitorVars == <<BLOCKED_IPS, SUSPICIOUS_IPS, lastMonitor>>
hardenedVars == <<securityLogMap, lastIndex, served>>
modalVars == <<app, modal, runs>>
vars == <<storage, clock, last, log, faulted,
          handler, rateLimitMap, now, window, lastReq,
          BLOCKED_IPS, SUSPICIOUS_IPS, lastMonitor,
          securityLogMap, lastIndex, served,
          app, modal, runs>>

\* ------------------------------------------------------------------ values
Null == <<"null">>

Min(a, b) == IF a < b THEN a ELSE b

\* types.ts GoddessCardData
Card(i) ==
    [id |-> i,
     name |-> <<"G", <<"a", "b", "c">>[i]>>,
     description |-> <<"d">>,
     message |-> <<"m", <<"a", "b", "c">>[i]>>]

ImageUrl == <<"data:image/jpeg;base64,AAAA">>

\* A single-card reading whose text and image were both generated.
SingleReading ==
    [mode |-> "single",
     cards |-> <<Card(1)>>,
     generatedMessages |-> << <<"h", "i">> >>,
     generatedImageUrl |-> ImageUrl]

\* A single-card reading whose generated text carries markup and whose image failed.
MarkupReading ==
    [mode |-> "single",
     cards |-> <<Card(2)>>,
     generatedMessages |-> << <<" ", "<", "b", ">", "'", "&">> >>,
     generatedImageUrl |-> Null]

\* A three-card reading with one message absent.
ThreeReading ==
    [mode |-> "three",
     cards |-> <<Card(1), Card(2), Card(3)>>,
     generatedMessages |-> << <<"p">>, Null, <<"\"", "f">> >>,
     generatedImageUrl |-> Null]

ReadingInputs == {SingleReading, MarkupReading, ThreeReading}

NoReading ==
    [mode |-> "none", cards |-> <<>>, generatedMessages |-> <<>>,
     generatedImageUrl |-> Null]

\* ----------------------------------------------------------- localStorage
\* The value kept under JOURNAL_KEY, by what JSON.parse makes of it:
\*   absent   no item            empty    the empty string
\*   garbage  not JSON           null     the JSON text null
\*   object   a JSON object      array    a JSON array (value: its elements)
\*   denied   the browser refuses every access to localStorage
Stored(kind, value) == [kind |-> kind, value |-> value]

Absent == Stored("absent", <<>>)

JSONstringify(readings) == Stored("array", readings)

JSONparse(item) ==
    IF item.kind = "garbage"
    THEN [threw |-> TRUE, json |-> "undefined", value |-> <<>>]
    ELSE [threw |-> FALSE, json |-> item.kind, value |-> item.value]

getItem(st) ==
    IF st.kind = "denied"
    THEN [threw |-> TRUE, item |-> Absent]
    ELSE [threw |-> FALSE, item |-> st]

\* w is the substrate's answer to this write: "ok", "quota" or "other".
setItem(st, item, w) ==
    IF st.kind = "denied"
    THEN [threw |-> TRUE, name |-> "SecurityError", storage |-> st]
    ELSE IF w = "ok"
    THEN [threw |-> FALSE, name |-> "", storage |-> item]
    ELSE IF w = "quota"
    THEN [threw |-> TRUE, name |-> "QuotaExceededError", storage |-> st]
    ELSE [threw |-> TRUE, name |-> "Error", storage |-> st]

removeItem(st) ==
    IF st.kind = "denied"
    THEN [threw |-> TRUE, storage |-> st]
    ELSE [threw |-> FALSE, storage |-> Absent]

\* --------------------------------------------------------------- storage.ts
EmptyArray == [threw |-> FALSE, json |-> "array", value |-> <<>>]

getReadings(st) ==
    LET data == getItem(st)
    IN  IF data.threw THEN EmptyArray                        \* catch: return []
        ELSE IF data.item.kind \in {"absent", "empty"} THEN EmptyArray   \* data falsy
        ELSE LET parsed == JSONparse(data.item)
             IN  IF parsed.threw THEN EmptyArray             \* catch: return []
                 ELSE [threw |-> FALSE, json |-> parsed.json, value |-> parsed.value]

\* new Date().toISOString(): "...:ss.sssZ", the seconds and the milliseconds
toISOString(t) == <<t \div 1000, t % 1000>>

\* new Date().toLocaleString('ja-JP', {... minute: '2-digit'}): to the minute
toLocaleString(t) == <<"ja-JP", t \div 60000>>

newReadingKeepsImage(reading, t) ==
    [id |-> toISOString(t),
     date |-> toLocaleString(t),
     mode |-> reading.mode,
     cards |-> reading.cards,
     generatedMessages |-> reading.generatedMessages,
     generatedImageUrl |-> reading.generatedImageUrl]

newReadingDropsMessages(reading, t) ==
    [id |-> toISOString(t),
     date |-> toLocaleString(t),
     mode |-> reading.mode,
     cards |-> reading.cards,
     generatedMessages |-> <<>>,
     generatedImageUrl |-> Null]

\* { ...reading, id, date, generatedImageUrl: null }
newReading(reading, t) ==
    [id |-> toISOString(t),
     date |-> toLocaleString(t),
     mode |-> reading.mode,
     cards |-> reading.cards,
     generatedMessages |-> reading.generatedMessages,
     generatedImageUrl |-> Null]

prependAtEnd(reading, readings) == readings \o <<reading>>

\* [newReading, ...readings]
prepend(reading, readings) == <<reading>> \o readings

spliceOffByOne(s, n) == SubSeq(s, 1, Min(n + 1, Len(s)))

\* s.splice(n): drops the elements from index n on
splice(s, n) == SubSeq(s, 1, Min(n, Len(s)))

sliceFromEnd(s, from, to) == SubSeq(s, Len(s) - Min(to, Len(s)) + 1, Len(s))

\* s.slice(from, to)
slice(s, from, to) == SubSeq(s, from + 1, Min(to, Len(s)))

saveReadingTryRetryingAll(st, reading, t, w1, w2) ==
    LET readings == getReadings(st)
        fresh == newReading(reading, t)
    IN  IF readings.json # "array"
        THEN \* [newReading, ...readings]: the parsed value is not iterable
             [storage |-> st, threw |-> TRUE, attempted |-> <<>>]
        ELSE
        LET spread == prepend(fresh, readings.value)
            updatedReadings ==
                IF Len(spread) > HISTORY_LIMIT THEN splice(spread, HISTORY_LIMIT)
                ELSE spread
            first == setItem(st, JSONstringify(updatedReadings), w1)
        IN  IF ~first.threw
            THEN [storage |-> first.storage, threw |-> FALSE,
                  attempted |-> <<Len(updatedReadings)>>]
            ELSE IF first.name # ""
            THEN LET reducedReadings == slice(updatedReadings, 0, REDUCED_LIMIT)
                     second == setItem(st, JSONstringify(reducedReadings), w2)
                 IN  [storage |-> second.storage, threw |-> second.threw,
                      attempted |-> <<Len(updatedReadings), Len(reducedReadings)>>]
            ELSE \* throw quotaError
                 [storage |-> st, threw |-> TRUE,
                  attempted |-> <<Len(updatedReadings)>>]

\* The body of saveReading's outer try block.
saveReadingTry(st, reading, t, w1, w2) ==
    LET readings == getReadings(st)
        fresh == newReading(reading, t)
    IN  IF readings.json # "array"
        THEN \* [newReading, ...readings]: the parsed value is not iterable
             [storage |-> st, threw |-> TRUE, attempted |-> <<>>]
        ELSE
        LET spread == prepend(fresh, readings.value)
            updatedReadings ==
                IF Len(spread) > HISTORY_LIMIT THEN splice(spread, HISTORY_LIMIT)
                ELSE spread
            first == setItem(st, JSONstringify(updatedReadings), w1)
        IN  IF ~first.threw
            THEN [storage |-> first.storage, threw |-> FALSE,
                  attempted |-> <<Len(updatedReadings)>>]
            ELSE IF first.name = "QuotaExceededError"
            THEN LET reducedReadings == slice(updatedReadings, 0, REDUCED_LIMIT)
                     second == setItem(st, JSONstringify(reducedReadings), w2)
                 IN  [storage |-> second.storage, threw |-> second.threw,
                      attempted |-> <<Len(updatedReadings), Len(reducedReadings)>>]
            ELSE \* throw quotaError
                 [storage |-> st, threw |-> TRUE,
                  attempted |-> <<Len(updatedReadings)>>]

catchNothing(result) ==
    [storage |-> result.storage, threw |-> result.threw, logged |-> FALSE,
     attempted |-> result.attempted]

\* catch (error) { console.error(...) }
catchAndLog(result) ==
    [storage |-> result.storage, threw |-> FALSE, logged |-> result.threw,
     attempted |-> result.attempted]

saveReading(st, reading, t, w1, w2) ==
    catchAndLog(saveReadingTry(st, reading, t, w1, w2))

clearReadings(st) ==
    LET removed == removeItem(st)
    IN  [storage |-> removed.storage, threw |-> FALSE, logged |-> removed.threw]

\* ------------------------------------------------------------------ actions
WriteOutcomes == {"ok", "quota", "other"}

Call(op, reading, result) ==
    [op |-> op, reading |-> reading, threw |-> result.threw,
     logged |-> result.logged, attempted |-> result.attempted]

NoCall == [op |-> "none", reading |-> NoReading, threw |-> FALSE,
           logged |-> FALSE, attempted |-> <<>>]

FirstWriteDone(result) == ~result.logged /\ Len(result.attempted) = 1

CallSaveReading(reading, w1, w2) ==
    LET result == saveReading(storage, reading, clock, w1, w2)
        clean == ~faulted /\ FirstWriteDone(result)
    IN  /\ storage' = result.storage
        /\ last' = Call("saveReading", reading, result)
        /\ faulted' = ~clean
        /\ log' = IF clean THEN <<[reading |-> reading, at |-> clock]>> \o log
                  ELSE <<>>
        /\ UNCHANGED <<clock, serverVars, monitorVars, hardenedVars>>

CallClearReadings ==
    LET result == clearReadings(storage)
    IN  /\ storage' = result.storage
        /\ last' = [NoCall EXCEPT !.op = "clearReadings", !.logged = result.logged]
        /\ faulted' = result.logged
        /\ log' = <<>>
        /\ UNCHANGED <<clock, serverVars, monitorVars, hardenedVars, modalVars>>

Tick ==
    /\ clock < MaxClock
    /\ clock' = clock + 1
    /\ last' = [NoCall EXCEPT !.op = "tick"]
    /\ UNCHANGED <<storage, log, faulted, serverVars, monitorVars, hardenedVars,
                 modalVars>>

\* ------------------------------------------- api/generateMessage, generateImage
Clients == {"c1", "c2"}

Handlers == {"generateMessage", "generateImage"}

RATE_LIMIT(h) == IF h = "generateImage" THEN IMAGE_RATE_LIMIT ELSE MESSAGE_RATE_LIMIT

NoEntry == [present |-> FALSE, count |-> 0, resetTime |-> 0]

Entry(count, resetTime) == [present |-> TRUE, count |-> count, resetTime |-> resetTime]

checkRateLimitOffByOne(map, ip, t, limit) ==
    LET clientData == map[ip]
    IN  IF ~clientData.present \/ t > clientData.resetTime
        THEN [allowed |-> TRUE,
              map |-> [map EXCEPT ![ip] = Entry(1, t + RATE_LIMIT_WINDOW)]]
        ELSE IF clientData.count > limit
        THEN [allowed |-> FALSE, map |-> map]
        ELSE [allowed |-> TRUE,
              map |-> [map EXCEPT ![ip] = Entry(clientData.count + 1, clientData.resetTime)]]

checkRateLimit(map, ip, t, limit) ==
    LET clientData == map[ip]
    IN  IF ~clientData.present \/ t > clientData.resetTime
        THEN [allowed |-> TRUE,
              map |-> [map EXCEPT ![ip] = Entry(1, t + RATE_LIMIT_WINDOW)]]
        ELSE IF clientData.count >= limit
        THEN [allowed |-> FALSE, map |-> map]
        ELSE [allowed |-> TRUE,
              map |-> [map EXCEPT ![ip] = Entry(clientData.count + 1, clientData.resetTime)]]

NoRequest == [ip |-> "none", method |-> "none", status |-> 0]

\* The window of a client as a caller sees it: it opens with the first request
\* made after the previous one has run its 60 seconds.
NoWindow == [start |-> 0, seen |-> 0]

WindowAfter(w, t) ==
    IF w.seen = 0 \/ t > w.start + RATE_LIMIT_WINDOW
    THEN [start |-> t, seen |-> 1]
    ELSE [start |-> w.start, seen |-> w.seen + 1]

HandleCountingDenied(ip, method, valid, keyed, provided) ==
    IF method # "POST"
    THEN /\ lastReq' = [ip |-> ip, method |-> method, status |-> 405]
         /\ UNCHANGED <<rateLimitMap, window>>
    ELSE LET rateLimitCheck == checkRateLimit(rateLimitMap, ip, now, RATE_LIMIT(handler))
             status == IF ~rateLimitCheck.allowed THEN 429
                       ELSE IF ~valid THEN 400
                       ELSE IF ~keyed THEN 500
                       ELSE IF provided THEN 200 ELSE 500
         IN  /\ WindowAfter(window[ip], now).seen <= RATE_LIMIT(handler) + MaxExcess
             /\ rateLimitMap' = IF rateLimitCheck.allowed THEN rateLimitCheck.map
                               ELSE [rateLimitMap EXCEPT ![ip].count = @ + 1]
             /\ window' = [window EXCEPT ![ip] = WindowAfter(window[ip], now)]
             /\ lastReq' = [ip |-> ip, method |-> method, status |-> status]

\* export default async function handler(req, res)
\* valid, keyed and provided are the verdict of validateRequest, whether
\* GEMINI_API_KEY is set, and whether the provider call returned.
Handle(ip, method, valid, keyed, provided) ==
    IF method # "POST"
    THEN /\ lastReq' = [ip |-> ip, method |-> method, status |-> 405]
         /\ UNCHANGED <<rateLimitMap, window>>
    ELSE LET rateLimitCheck == checkRateLimit(rateLimitMap, ip, now, RATE_LIMIT(handler))
             status == IF ~rateLimitCheck.allowed THEN 429
                       ELSE IF ~valid THEN 400
                       ELSE IF ~keyed THEN 500
                       ELSE IF provided THEN 200 ELSE 500
         IN  /\ WindowAfter(window[ip], now).seen <= RATE_LIMIT(handler) + MaxExcess
             /\ rateLimitMap' = rateLimitCheck.map
             /\ window' = [window EXCEPT ![ip] = WindowAfter(window[ip], now)]
             /\ lastReq' = [ip |-> ip, method |-> method, status |-> status]

Request ==
    /\ \E ip \in Clients, method \in {"POST", "GET"},
          valid \in BOOLEAN, keyed \in BOOLEAN, provided \in BOOLEAN :
           Handle(ip, method, valid, keyed, provided)
    /\ UNCHANGED <<handler, now, journalVars, monitorVars, hardenedVars, modalVars>>

ServerTick ==
    /\ \/ /\ now % RATE_LIMIT_WINDOW < MaxMs
          /\ now' = now + 1
       \/ /\ now \div RATE_LIMIT_WINDOW < MaxWindows
          /\ now' = now + RATE_LIMIT_WINDOW
    /\ lastReq' = NoRequest
    /\ UNCHANGED <<handler, rateLimitMap, window, journalVars, monitorVars,
                 hardenedVars, modalVars>>

ServerIdle ==
    /\ handler = "generateMessage"
    /\ rateLimitMap = [ip \in Clients |-> NoEntry]
    /\ now = 0
    /\ window = [ip \in Clients |-> NoWindow]
    /\ lastReq = NoRequest

\* ------------------------------------------------------------- security.ts
htmlEntities(c) ==
    CASE c = "<" -> <<"&", "l", "t", ";">>
      [] c = ">" -> <<"&", "g", "t", ";">>
      [] c = "\"" -> <<"&", "q", "u", "o", "t", ";">>
      [] c = "'" -> <<"&", "#", "x", "2", "7", ";">>
      [] c = "&" -> <<"&", "a", "m", "p", ";">>
      [] OTHER -> <<c>>

RECURSIVE replaceEntities(_)
replaceEntities(s) ==
    IF s = <<>> THEN <<>> ELSE htmlEntities(Head(s)) \o replaceEntities(Tail(s))

WhiteSpace == {" ", "\t", "\n"}

RECURSIVE trimStart(_)
trimStart(s) ==
    IF s # <<>> /\ Head(s) \in WhiteSpace THEN trimStart(Tail(s)) ELSE s

RECURSIVE trimEnd(_)
trimEnd(s) ==
    IF s # <<>> /\ s[Len(s)] \in WhiteSpace THEN trimEnd(SubSeq(s, 1, Len(s) - 1))
    ELSE s

trim(s) == trimEnd(trimStart(s))

sanitizeUserInput(input) == trim(replaceEntities(input))

\* ---------------------------------------------- security middleware: monitorIP
\* The address whose monitorIP calls are followed.
MonitoredIps == {"c1"}

MonitorActions == {"success", "failure", "suspicious"}

\* SUSPICIOUS_IPS.get(ip) || { attempts: 0, lastAttempt: 0, blocked: false }
NoIpData == [attempts |-> 0, lastAttempt |-> 0, blocked |-> FALSE]

Max(a, b) == IF a > b THEN a ELSE b

monitorUnblockedNoReset(blockedIps, suspicious, ip, action, t) ==
    LET ipData == suspicious[ip]
        expired == FALSE
        attempts0 == IF expired THEN 0 ELSE ipData.attempts
        blocked0 == IF expired THEN FALSE ELSE ipData.blocked
        failed == action \in {"failure", "suspicious"}
        attempts1 == IF failed THEN attempts0 + 1
                     ELSE IF attempts0 > 0 THEN Max(0, attempts0 - 1)
                     ELSE attempts0
        blocked1 == IF failed /\ attempts1 > MAX_ATTEMPTS_PER_HOUR THEN TRUE
                    ELSE blocked0
        blockedIps1 == IF failed /\ attempts1 > MAX_FAILED_ATTEMPTS * 5
                       THEN blockedIps \cup {ip}
                       ELSE blockedIps
    IN  [BLOCKED_IPS |-> blockedIps1,
         SUSPICIOUS_IPS |->
             [suspicious EXCEPT ![ip] = [attempts |-> attempts1, lastAttempt |-> t,
                                         blocked |-> blocked1]],
         blocked |-> blocked1 \/ ip \in blockedIps1,
         reason |-> IF blocked1 THEN "Too many failed attempts" ELSE "undefined"]

\* monitorIP from "const now = Date.now()" on: the address is not in BLOCKED_IPS
monitorUnblocked(blockedIps, suspicious, ip, action, t) ==
    LET ipData == suspicious[ip]
        expired == t - ipData.lastAttempt > BLOCK_DURATION
        attempts0 == IF expired THEN 0 ELSE ipData.attempts
        blocked0 == IF expired THEN FALSE ELSE ipData.blocked
        failed == action \in {"failure", "suspicious"}
        attempts1 == IF failed THEN attempts0 + 1
                     ELSE IF attempts0 > 0 THEN Max(0, attempts0 - 1)
                     ELSE attempts0
        blocked1 == IF failed /\ attempts1 > MAX_ATTEMPTS_PER_HOUR THEN TRUE
                    ELSE blocked0
        blockedIps1 == IF failed /\ attempts1 > MAX_FAILED_ATTEMPTS * 5
                       THEN blockedIps \cup {ip}
                       ELSE blockedIps
    IN  [BLOCKED_IPS |-> blockedIps1,
         SUSPICIOUS_IPS |->
             [suspicious EXCEPT ![ip] = [attempts |-> attempts1, lastAttempt |-> t,
                                         blocked |-> blocked1]],
         blocked |-> blocked1 \/ ip \in blockedIps1,
         reason |-> IF blocked1 THEN "Too many failed attempts" ELSE "undefined"]

monitorIPNoList(blockedIps, suspicious, ip, action, t) ==
    monitorUnblocked(blockedIps, suspicious, ip, action, t)

\* export const monitorIP = (ip, action) => ...
monitorIP(blockedIps, suspicious, ip, action, t) ==
    IF ip \in blockedIps
    THEN [BLOCKED_IPS |-> blockedIps, SUSPICIOUS_IPS |-> suspicious,
          blocked |-> TRUE, reason |-> "IP permanently blocked"]
    ELSE monitorUnblocked(blockedIps, suspicious, ip, action, t)

NoMonitor == [ip |-> "none", action |-> "none", blocked |-> FALSE,
              reason |-> "undefined", listed |-> FALSE]

CallMonitorIP(ip, action) ==
    LET result == monitorIP(BLOCKED_IPS, SUSPICIOUS_IPS, ip, action, now)
    IN  /\ BLOCKED_IPS' = result.BLOCKED_IPS
        /\ SUSPICIOUS_IPS' = result.SUSPICIOUS_IPS
        /\ lastMonitor' = [ip |-> ip, action |-> action, blocked |-> result.blocked,
                           reason |-> result.reason, listed |-> ip \in BLOCKED_IPS]

Monitor ==
    /\ \E ip \in MonitoredIps, action \in MonitorActions : CallMonitorIP(ip, action)
    /\ UNCHANGED <<journalVars, serverVars, hardenedVars, modalVars>>

\* Date.now() moves on, by a millisecond or by the length of a block.
MonitorTick ==
    /\ \/ /\ now % BLOCK_DURATION < MaxMs
          /\ now' = now + 1
       \/ /\ now \div BLOCK_DURATION < MaxHours
          /\ now' = now + BLOCK_DURATION
    /\ lastMonitor' = NoMonitor
    /\ UNCHANGED <<BLOCKED_IPS, SUSPICIOUS_IPS, handler, rateLimitMap, window, lastReq,
                   journalVars, hardenedVars, modalVars>>

MonitorIdle ==
    /\ BLOCKED_IPS = {}
    /\ SUSPICIOUS_IPS = [ip \in MonitoredIps |-> NoIpData]
    /\ lastMonitor = NoMonitor

\* ------------------------------------- hardened endpoints: BLOCKED_PATTERNS
UpperCase == <<"A", "B", "C", "D", "E", "F", "G", "H", "I", "J", "K", "L", "M",
               "N", "O", "P", "Q", "R", "S", "T", "U", "V", "W", "X", "Y", "Z">>

LowerCase == <<"a", "b", "c", "d", "e", "f", "g", "h", "i", "j", "k", "l", "m",
               "n", "o", "p", "q", "r", "s", "t", "u", "v", "w", "x", "y", "z">>

\* the i flag: letters compare without regard to case
FoldCase ==
    [c \in {UpperCase[i] : i \in 1..26} |->
        LowerCase[CHOOSE i \in 1..26 : UpperCase[i] = c]]

toLowerCase(c) == IF c \in DOMAIN FoldCase THEN FoldCase[c] ELSE c

Chars(word) ==
    CASE word = "script" -> <<"s", "c", "r", "i", "p", "t">>
      [] word = "javascript:" -> <<"j", "a", "v", "a", "s", "c", "r", "i", "p", "t", ":">>
      [] word = "vbscript:" -> <<"v", "b", "s", "c", "r", "i", "p", "t", ":">>
      [] word = "nude" -> <<"n", "u", "d", "e">>
      [] word = "nsfw" -> <<"n", "s", "f", "w">>
      [] word = "explicit" -> <<"e", "x", "p", "l", "i", "c", "i", "t">>

\* /<[^>]*>/g is the pattern named "tag"; every other pattern is /word/gi.
MessagePatterns == <<"script", "tag", "javascript:", "vbscript:">>

ImagePatterns == <<"script", "tag", "javascript:", "vbscript:", "nude", "nsfw", "explicit">>

PatternNames == {ImagePatterns[i] : i \in 1..Len(ImagePatterns)}

BLOCKED_PATTERNS(h) == IF h = "generateImage" THEN ImagePatterns ELSE MessagePatterns

NoMatch == [matched |-> FALSE, lastIndex |-> 0]

Least(indices) == CHOOSE i \in indices : \A j \in indices : i <= j

\* /word/gi: the first match that starts at the 0-based index from or later
execWord(chars, content, from) ==
    LET starts == {p \in from..(Len(content) - Len(chars)) :
                      \A k \in 1..Len(chars) : toLowerCase(content[p + k]) = chars[k]}
    IN  IF starts = {} THEN NoMatch
        ELSE [matched |-> TRUE, lastIndex |-> Least(starts) + Len(chars)]

\* /<[^>]*>/g: the first < at the 0-based index from or later that has a > after
\* it; the match ends with the first such >
execTag(content, from) ==
    LET closes(p) == {e \in (p + 2)..Len(content) : content[e] = ">"}
        starts == {p \in from..(Len(content) - 1) :
                      content[p + 1] = "<" /\ closes(p) # {}}
    IN  IF starts = {} THEN NoMatch
        ELSE [matched |-> TRUE, lastIndex |-> Least(closes(Least(starts)))]

\* pattern.test(content) of a regular expression with the g flag: the search
\* starts at the pattern's lastIndex; a match leaves lastIndex at its end, a
\* failure resets lastIndex to 0.
test(pattern, content, from) ==
    IF pattern = "tag" THEN execTag(content, from)
    ELSE execWord(Chars(pattern), content, from)

\* validateSecurity: the loop over BLOCKED_PATTERNS from the k-th pattern on.
RECURSIVE scanPatterns(_, _, _, _)
scanPatterns(patterns, content, li, k) ==
    IF k > Len(patterns) THEN [isValid |-> TRUE, lastIndex |-> li]
    ELSE LET tested == test(patterns[k], content, li[patterns[k]])
             li1 == [li EXCEPT ![patterns[k]] = tested.lastIndex]
         IN  IF tested.matched THEN [isValid |-> FALSE, lastIndex |-> li1]
             ELSE scanPatterns(patterns, content, li1, k + 1)

validateSecurity(h, content, li) == scanPatterns(BLOCKED_PATTERNS(h), content, li, 1)

\* ----------------------------------------- hardened endpoints: validateRequest
\* A value that is not a string: undefined (Null) or a number (NotString).
NotString == <<"number">>

IsString(v) == v \notin {Null, NotString}

Repeat(c, n) == [i \in 1..n |-> c]

RequestCard(name, description) ==
    [kind |-> "object", name |-> name, description |-> description]

\* req.body: kind is what typeof makes of it; padding is the serialized length
\* of every property the validator does not look at.
MessageBody(mode, cards, padding) ==
    [kind |-> "object", mode |-> mode, isArray |-> TRUE, cards |-> cards,
     prompt |-> Null, padding |-> padding]

\* a body whose cards property is not an array
ArraylessBody(mode, padding) ==
    [kind |-> "object", mode |-> mode, isArray |-> FALSE, cards |-> <<>>,
     prompt |-> Null, padding |-> padding]

ImageBody(prompt, padding) ==
    [kind |-> "object", mode |-> "undefined", isArray |-> FALSE, cards |-> <<>>,
     prompt |-> prompt, padding |-> padding]

NoBody == [kind |-> "undefined", mode |-> "undefined", isArray |-> FALSE,
           cards |-> <<>>, prompt |-> Null, padding |-> 0]

\* the length of JSON.stringify(v) for a property value
jsonLength(v) == IF IsString(v) THEN Len(v) + 2 ELSE 1

RECURSIVE cardsLength(_)
cardsLength(cards) ==
    IF cards = <<>> THEN 0
    ELSE (IF Head(cards).kind = "object"
          THEN 24 + jsonLength(Head(cards).name) + jsonLength(Head(cards).description)
          ELSE 4)
         + (IF Len(cards) > 1 THEN 1 ELSE 0) + cardsLength(Tail(cards))

\* JSON.stringify(body).length
requestSize(body) ==
    body.padding
    + (IF ~body.isArray THEN 0 ELSE 10 + cardsLength(body.cards))
    + (IF body.mode = "undefined" THEN 0 ELSE 10)
    + (IF body.prompt = Null THEN 0 ELSE 11 + jsonLength(body.prompt))

MAX_REQUEST_SIZE(h) ==
    IF h = "generateImage" THEN IMAGE_MAX_REQUEST_SIZE ELSE MESSAGE_MAX_REQUEST_SIZE

Verdict(isValid, error, li) == [isValid |-> isValid, error |-> error, lastIndex |-> li]

\* for (const card of cards) { ... }, from the k-th card on
RECURSIVE validateCards(_, _, _)
validateCards(cards, li, k) ==
    IF k > Len(cards) THEN Verdict(TRUE, "", li)
    ELSE LET card == cards[k]
         IN  IF card.kind # "object"
             THEN Verdict(FALSE, "Invalid card structure", li)
             ELSE IF card.name = <<>> \/ ~IsString(card.name)
                     \/ Len(card.name) > MAX_CARD_NAME_LENGTH
             THEN Verdict(FALSE, "Invalid card name", li)
             ELSE IF card.description = <<>> \/ ~IsString(card.description)
                     \/ Len(card.description) > MAX_CARD_DESC_LENGTH
             THEN Verdict(FALSE, "Invalid card description", li)
             ELSE LET nameValidation == validateSecurity("generateMessage", card.name, li)
                  IN  IF ~nameValidation.isValid
                      THEN Verdict(FALSE, "Content contains blocked patterns",
                                   nameValidation.lastIndex)
                      ELSE LET descValidation ==
                                   validateSecurity("generateMessage", card.description,
                                                    nameValidation.lastIndex)
                           IN  IF ~descValidation.isValid
                               THEN Verdict(FALSE, "Content contains blocked patterns",
                                            descValidation.lastIndex)
                               ELSE validateCards(cards, descValidation.lastIndex, k + 1)

validateMessageRequestLax(body, li) ==
    IF body.kind # "object" THEN Verdict(FALSE, "Invalid request body", li)
    ELSE IF requestSize(body) > MESSAGE_MAX_REQUEST_SIZE
    THEN Verdict(FALSE, "Request payload too large", li)
    ELSE IF ~body.isArray \/ Len(body.cards) = 0
    THEN Verdict(FALSE, "Cards array is required and must not be empty", li)
    ELSE IF body.mode \notin {"single", "three"}
    THEN Verdict(FALSE, "Mode must be either \"single\" or \"three\"", li)
    ELSE IF body.mode = "single" /\ Len(body.cards) # 1
    THEN Verdict(FALSE, "Single mode requires exactly 1 card", li)
    ELSE validateCards(body.cards, li, 1)

\* hardened generateMessage: validateRequest
validateMessageRequest(body, li) ==
    IF body.kind # "object" THEN Verdict(FALSE, "Invalid request body", li)
    ELSE IF requestSize(body) > MESSAGE_MAX_REQUEST_SIZE
    THEN Verdict(FALSE, "Request payload too large", li)
    ELSE IF ~body.isArray \/ Len(body.cards) = 0
    THEN Verdict(FALSE, "Cards array is required and must not be empty", li)
    ELSE IF body.mode \notin {"single", "three"}
    THEN Verdict(FALSE, "Mode must be either \"single\" or \"three\"", li)
    ELSE IF body.mode = "single" /\ Len(body.cards) # 1
    THEN Verdict(FALSE, "Single mode requires exactly 1 card", li)
    ELSE IF body.mode = "three" /\ Len(body.cards) # 3
    THEN Verdict(FALSE, "Three mode requires exactly 3 cards", li)
    ELSE validateCards(body.cards, li, 1)

\* hardened generateImage: validateRequest
validateImageRequest(body, li) ==
    IF body.kind # "object" THEN Verdict(FALSE, "Invalid request body", li)
    ELSE IF requestSize(body) > IMAGE_MAX_REQUEST_SIZE
    THEN Verdict(FALSE, "Request payload too large", li)
    ELSE IF body.prompt = <<>> \/ ~IsString(body.prompt) \/ Len(trim(body.prompt)) = 0
    THEN Verdict(FALSE, "Prompt is required and must be a non-empty string", li)
    ELSE IF Len(body.prompt) > MAX_PROMPT_LENGTH
    THEN Verdict(FALSE, "Prompt is too long (max 800 characters)", li)
    ELSE LET securityValidation == validateSecurity("generateImage", body.prompt, li)
         IN  IF ~securityValidation.isValid
             THEN Verdict(FALSE, "Content contains inappropriate or blocked patterns",
                          securityValidation.lastIndex)
             ELSE Verdict(TRUE, "", securityValidation.lastIndex)

validateRequest(h, body, li) ==
    IF h = "generateImage" THEN validateImageRequest(body, li)
    ELSE validateMessageRequest(body, li)

\* generateMessage before hardening: validateRequest
validateRequestBasic(body) ==
    IF body.kind # "object" THEN Verdict(FALSE, "Invalid request body", <<>>)
    ELSE IF ~body.isArray \/ Len(body.cards) = 0
    THEN Verdict(FALSE, "Cards array is required and must not be empty", <<>>)
    ELSE IF body.mode \notin {"single", "three"}
    THEN Verdict(FALSE, "Mode must be either \"single\" or \"three\"", <<>>)
    ELSE IF body.mode = "single" /\ Len(body.cards) # 1
    THEN Verdict(FALSE, "Single mode requires exactly 1 card", <<>>)
    ELSE IF body.mode = "three" /\ Len(body.cards) # 3
    THEN Verdict(FALSE, "Three mode requires exactly 3 cards", <<>>)
    ELSE IF \E k \in 1..Len(body.cards) :
                \/ body.cards[k].kind # "object"
                \/ body.cards[k].name \in {Null, <<>>}
                \/ body.cards[k].description \in {Null, <<>>}
    THEN Verdict(FALSE, "Invalid card structure", <<>>)
    ELSE Verdict(TRUE, "", <<>>)

\* ------------------------------------------------- request bodies followed
GoodCard == RequestCard(<<"G", "a">>, <<"d">>)

ScriptTag == <<"<", "S", "c", "r", "i", "p", "t", ">">>

JavaScriptUri == <<"J", "a", "v", "a", "S", "c", "r", "i", "p", "t", ":", "x">>

SingleBody == MessageBody("single", <<GoodCard>>, 0)

ThreeBody ==
    MessageBody("three", <<RequestCard(Card(1).name, Card(1).description),
                           RequestCard(Card(2).name, Card(2).description),
                           RequestCard(Card(3).name, Card(3).description)>>, 0)

ScriptBody == MessageBody("single", <<RequestCard(ScriptTag, <<"d">>)>>, 0)

UriBody == MessageBody("single", <<RequestCard(<<"G", "a">>, JavaScriptUri)>>, 0)

\* three cards: the first carries a script tag, the second has no name
TagThenNamelessBody ==
    MessageBody("three", <<RequestCard(ScriptTag, <<"d">>), RequestCard(<<>>, <<"d">>),
                           GoodCard>>, 0)

MessageBodies ==
    {NoBody, SingleBody, ThreeBody, ScriptBody, UriBody, TagThenNamelessBody,
     MessageBody("three", <<GoodCard, GoodCard>>, 0),
     MessageBody("single", <<GoodCard, GoodCard, GoodCard>>, 0),
     MessageBody("five", <<GoodCard>>, 0),
     MessageBody("single", <<>>, 0),
     ArraylessBody("single", 0),
     MessageBody("single", <<GoodCard>>, MESSAGE_MAX_REQUEST_SIZE),
     MessageBody("five", <<GoodCard>>, MESSAGE_MAX_REQUEST_SIZE),
     MessageBody("single", <<[kind |-> "undefined", name |-> Null, description |-> Null]>>, 0),
     MessageBody("single", <<RequestCard(Repeat("x", MAX_CARD_NAME_LENGTH + 1), <<"d">>)>>, 0),
     MessageBody("single", <<RequestCard(<<"G", "a">>, NotString)>>, 0),
     MessageBody("single", <<RequestCard(<<"G", "a">>,
                                         Repeat("x", MAX_CARD_DESC_LENGTH + 1))>>, 0)}

GoodPrompt == <<"a", " ", "g", "o", "d", "d", "e", "s", "s">>

NsfwPrompt == <<"N", "s", "f", "w", " ", "a", "r", "t">>

PromptBody == ImageBody(GoodPrompt, 0)

NsfwBody == ImageBody(NsfwPrompt, 0)

ImageBodies ==
    {NoBody, PromptBody, NsfwBody,
     ImageBody(<<" ", " ">>, 0),
     ImageBody(NotString, 0),
     ImageBody(Null, 0),
     ImageBody(Repeat("x", MAX_PROMPT_LENGTH + 1), 0),
     ImageBody(NsfwPrompt \o Repeat("x", MAX_PROMPT_LENGTH), 0),
     ImageBody(GoodPrompt, IMAGE_MAX_REQUEST_SIZE),
     ImageBody(ScriptTag, 0)}

Bodies(h) == IF h = "generateImage" THEN ImageBodies ELSE MessageBodies

\* ------------------------------------------- hardened endpoints: the handler
\* validateApiKey; the key is "undefined", "PLACEHOLDER", "short" or "valid"
ApiKeys == {"undefined", "PLACEHOLDER", "short", "valid"}

validateApiKey(apiKey) ==
    IF apiKey = "undefined"
    THEN [isValid |-> FALSE, error |-> "API key is not configured"]
    ELSE IF apiKey \in {"PLACEHOLDER", "short"}
    THEN [isValid |-> FALSE, error |-> "Invalid API key configuration"]
    ELSE [isValid |-> TRUE, error |-> ""]

NoSecurityData == [present |-> FALSE, attempts |-> 0, lastAttempt |-> 0]

SecurityData(attempts, lastAttempt) ==
    [present |-> TRUE, attempts |-> attempts, lastAttempt |-> lastAttempt]

SUSPICION(h) == IF h = "generateImage" THEN IMAGE_SUSPICION ELSE MESSAGE_SUSPICION

checkRateLimitWindowFirst(h, map, log0, ip, t) ==
    LET securityData == log0[ip]
        counted == IF securityData.present
                   THEN SecurityData(securityData.attempts + 1, t)
                   ELSE SecurityData(1, t)
        log1 == [log0 EXCEPT ![ip] = counted]
        windowed == checkRateLimit(map, ip, t, RATE_LIMIT(h))
    IN  IF /\ securityData.present
           /\ counted.attempts > SUSPICION(h)
           /\ (t - counted.lastAttempt) < HOUR
        THEN [allowed |-> FALSE, map |-> windowed.map, securityLogMap |-> log1,
              error |-> "IP temporarily blocked due to suspicious activity"]
        ELSE [allowed |-> windowed.allowed, map |-> windowed.map,
              securityLogMap |-> log1,
              error |-> IF windowed.allowed THEN ""
                        ELSE "Rate limit exceeded. Please try again later."]

\* checkRateLimit of the hardened endpoints: security monitoring, then the window
checkRateLimitMonitored(h, map, log0, ip, t) ==
    LET securityData == log0[ip]
        counted == IF securityData.present
                   THEN SecurityData(securityData.attempts + 1, t)
                   ELSE SecurityData(1, t)
        log1 == [log0 EXCEPT ![ip] = counted]
    IN  IF /\ securityData.present
           /\ counted.attempts > SUSPICION(h)
           /\ (t - counted.lastAttempt) < HOUR
        THEN [allowed |-> FALSE, map |-> map, securityLogMap |-> log1,
              error |-> "IP temporarily blocked due to suspicious activity"]
        ELSE LET windowed == checkRateLimit(map, ip, t, RATE_LIMIT(h))
             IN  [allowed |-> windowed.allowed, map |-> windowed.map,
                  securityLogMap |-> log1,
                  error |-> IF windowed.allowed THEN ""
                            ELSE "Rate limit exceeded. Please try again later."]

\* What the provider makes of the call: it returns what was asked ("ok"), a
\* response with a part missing ("partial"), text that is not JSON
\* ("malformed"), or it throws ("throws").
ProviderOutcomes == {"ok", "partial", "malformed", "throws"}

\* the text the provider writes for a card
TextFor(card) == <<"*">> \o card.name

\* generateThreeCardSpreadMessagePrompt: which card the prompt calls past,
\* present and future
generateThreeCardSpreadMessagePrompt(cards) ==
    [past |-> cards[1], present |-> cards[2], future |-> cards[3]]

\* JSON.parse(response.text) of the three-card call
threeCardResponse(prompt, outcome) ==
    [past |-> TextFor(prompt.past),
     present |-> IF outcome = "partial" THEN Null ELSE TextFor(prompt.present),
     future |-> TextFor(prompt.future)]

unpackReversed(jsonResponse) ==
    <<jsonResponse.future, jsonResponse.present, jsonResponse.past>>

\* [jsonResponse.past, jsonResponse.present, jsonResponse.future]
unpack(jsonResponse) ==
    <<jsonResponse.past, jsonResponse.present, jsonResponse.future>>

\* a field that is undefined, and so left out of the JSON that is sent
Undefined == <<"undefined">>

Response(status, error, called, messages) ==
    [status |-> status, error |-> error, called |-> called, messages |-> messages,
     caught |-> FALSE, thrown |-> Undefined, nodeEnv |-> "none",
     details |-> Undefined]

\* String.prototype.includes: the search is case-sensitive
includes(text, word) ==
    \E p \in 0..(Len(text) - Len(word)) :
        \A k \in 1..Len(word) : text[p + k] = word[k]

ApiKeyWord == <<"A", "P", "I", " ", "k", "e", "y">>

QuotaWord == <<"q", "u", "o", "t", "a">>

PermissionWord == <<"p", "e", "r", "m", "i", "s", "s", "i", "o", "n">>

\* error.message?.includes(word): undefined when the error has no message
mentions(message, word) == message # Undefined /\ includes(message, word)

errorMessageQuotaFirst(message, fallback) ==
    IF mentions(message, QuotaWord) THEN "API quota exceeded"
    ELSE IF mentions(message, ApiKeyWord) THEN "API key is invalid or missing"
    ELSE IF mentions(message, PermissionWord) THEN "API permission denied"
    ELSE fallback

\* let errorMessage = fallback; if ... else if ... else if ...
errorMessage(message, fallback) ==
    IF mentions(message, ApiKeyWord) THEN "API key is invalid or missing"
    ELSE IF mentions(message, QuotaWord) THEN "API quota exceeded"
    ELSE IF mentions(message, PermissionWord) THEN "API permission denied"
    ELSE fallback

\* the catch block: message is error.message, nodeEnv is process.env.NODE_ENV
catch(message, nodeEnv, fallback) ==
    [status |-> 500, error |-> errorMessage(message, fallback), called |-> TRUE,
     messages |-> <<>>, caught |-> TRUE, thrown |-> message, nodeEnv |-> nodeEnv,
     details |-> IF nodeEnv = "development" THEN message ELSE Undefined]

\* the message of the SyntaxError that JSON.parse throws
UnexpectedToken == <<"U", "n", "e", "x", "p", "e", "c", "t", "e", "d", " ",
                     "t", "o", "k", "e", "n">>

\* the try block of the hardened generateMessage handler and its catch; message
\* is the message of the error the provider call throws when it throws
generateMessages(body, outcome, message, nodeEnv) ==
    IF body.mode = "single" /\ Len(body.cards) = 1
    THEN IF outcome = "throws"
         THEN catch(message, nodeEnv, "Failed to generate content from AI")
         ELSE Response(200, "", TRUE,
                       <<IF outcome = "ok" THEN TextFor(body.cards[1]) ELSE Null>>)
    ELSE IF body.mode = "three" /\ Len(body.cards) = 3
    THEN IF outcome = "throws"
         THEN catch(message, nodeEnv, "Failed to generate content from AI")
         ELSE IF outcome = "malformed"
         THEN catch(UnexpectedToken, nodeEnv, "Failed to generate content from AI")
         ELSE Response(200, "", TRUE,
                       unpack(threeCardResponse(
                           generateThreeCardSpreadMessagePrompt(body.cards), outcome)))
    ELSE Response(400, "Invalid request body", FALSE, <<>>)

\* the message of the TypeError of response.generatedImages[0].image.imageBytes
\* on a response without an image
CannotRead == <<"C", "a", "n", "n", "o", "t", " ", "r", "e", "a", "d">>

\* the try block of the hardened generateImage handler and its catch
generateImage(body, outcome, message, nodeEnv) ==
    IF outcome = "ok" THEN Response(200, "", TRUE, <<ImageUrl>>)
    ELSE IF outcome = "throws"
    THEN catch(message, nodeEnv, "Failed to generate image from AI")
    ELSE catch(CannotRead, nodeEnv, "Failed to generate image from AI")

NoServed ==
    [op |-> "none", ip |-> "none", method |-> "none", body |-> NoBody,
     allowed |-> FALSE, isValid |-> FALSE, keyed |-> FALSE, status |-> 0,
     error |-> "", called |-> FALSE, messages |-> <<>>, caught |-> FALSE,
     thrown |-> Undefined, nodeEnv |-> "none", details |-> Undefined]

Served(op, ip, method, body, allowed, isValid, response) ==
    [op |-> op, ip |-> ip, method |-> method, body |-> body, allowed |-> allowed,
     isValid |-> isValid, keyed |-> FALSE, status |-> response.status,
     error |-> response.error,
     called |-> response.called, messages |-> response.messages,
     caught |-> response.caught, thrown |-> response.thrown,
     nodeEnv |-> response.nodeEnv, details |-> response.details]

gateUnvalidated(validation, apiKeyValidation, generated) ==
    IF ~apiKeyValidation.isValid
    THEN Response(500, "Service temporarily unavailable", FALSE, <<>>)
    ELSE generated

\* the handler between the rate-limit check and the try block: input
\* validation, then API key validation; generated is what the try block answers
gate(validation, apiKeyValidation, generated) ==
    IF ~validation.isValid THEN Response(400, validation.error, FALSE, <<>>)
    ELSE IF ~apiKeyValidation.isValid
    THEN Response(500, "Service temporarily unavailable", FALSE, <<>>)
    ELSE generated

ServeValidatingFirst(ip, method, body, apiKey, outcome, message, nodeEnv) ==
    IF method # "POST"
    THEN /\ served' = Served("handler", ip, method, body, FALSE, FALSE,
                             Response(405, "Method Not Allowed", FALSE, <<>>))
         /\ UNCHANGED <<rateLimitMap, securityLogMap, lastIndex>>
    ELSE
    LET rateLimitCheck ==
            checkRateLimitMonitored(handler, rateLimitMap, securityLogMap, ip, now)
        validation == validateRequest(handler, body, lastIndex)
        apiKeyValidation == validateApiKey(apiKey)
    IN  IF ~validation.isValid
        THEN /\ lastIndex' = validation.lastIndex
             /\ served' = Served("handler", ip, method, body, TRUE, FALSE,
                                 Response(400, validation.error, FALSE, <<>>))
             /\ securityLogMap' = rateLimitCheck.securityLogMap
             /\ UNCHANGED rateLimitMap
        ELSE
        /\ rateLimitMap' = rateLimitCheck.map
        /\ securityLogMap' = rateLimitCheck.securityLogMap
        /\ IF ~rateLimitCheck.allowed
           THEN /\ served' = Served("handler", ip, method, body, FALSE, FALSE,
                                    Response(429, rateLimitCheck.error, FALSE, <<>>))
                /\ UNCHANGED lastIndex
           ELSE /\ lastIndex' = validation.lastIndex
                /\ served' =
                     [Served("handler", ip, method, body, TRUE, validation.isValid,
                         gate(validation, apiKeyValidation,
                              IF handler = "generateImage"
                              THEN generateImage(body, outcome, message, nodeEnv)
                              ELSE generateMessages(body, outcome, message,
                                                    nodeEnv)))
                      EXCEPT !.keyed = validation.isValid /\ apiKeyValidation.isValid]

\* export default async function handler(req, res) of the hardened endpoints
Serve(ip, method, body, apiKey, outcome, message, nodeEnv) ==
    IF method # "POST"
    THEN /\ served' = Served("handler", ip, method, body, FALSE, FALSE,
                             Response(405, "Method Not Allowed", FALSE, <<>>))
         /\ UNCHANGED <<rateLimitMap, securityLogMap, lastIndex>>
    ELSE
    LET rateLimitCheck ==
            checkRateLimitMonitored(handler, rateLimitMap, securityLogMap, ip, now)
        validation == validateRequest(handler, body, lastIndex)
        apiKeyValidation == validateApiKey(apiKey)
    IN  /\ rateLimitMap' = rateLimitCheck.map
        /\ securityLogMap' = rateLimitCheck.securityLogMap
        /\ IF ~rateLimitCheck.allowed
           THEN /\ served' = Served("handler", ip, method, body, FALSE, FALSE,
                                    Response(429, rateLimitCheck.error, FALSE, <<>>))
                /\ UNCHANGED lastIndex
           ELSE /\ lastIndex' = validation.lastIndex
                /\ served' =
                     [Served("handler", ip, method, body, TRUE, validation.isValid,
                         gate(validation, apiKeyValidation,
                              IF handler = "generateImage"
                              THEN generateImage(body, outcome, message, nodeEnv)
                              ELSE generateMessages(body, outcome, message,
                                                    nodeEnv)))
                      EXCEPT !.keyed = validation.isValid /\ apiKeyValidation.isValid]

HardenedClients == {"c1"}

\* the message of the error of a call that does not reach the provider
FetchFailed == <<"f", "e", "t", "c", "h", " ", "f", "a", "i", "l", "e", "d">>

FreshLastIndex == [pattern \in PatternNames |-> 0]

HardenedIdle ==
    /\ securityLogMap = [ip \in Clients |-> NoSecurityData]
    /\ lastIndex = FreshLastIndex
    /\ served = NoServed

\* Date.now() of the hardened endpoint moves on by an hour.
HardenedTick ==
    /\ now \div HOUR < MaxHours
    /\ now' = now + HOUR
    /\ served' = NoServed
    /\ UNCHANGED <<handler, rateLimitMap, window, lastReq, securityLogMap, lastIndex,
                   journalVars, monitorVars, modalVars>>

\* ------------------------------------------------------------------ App.tsx
ReadingModes == {"single", "three"}

\* GODDESS_CARDS, as far as a draw of three needs them
Deck == {Card(1), Card(2), Card(3)}

\* the useState hooks of App after the mount effect (setReadings(getReadings())
\* of an empty journal), and the timeouts that are set: resets counts the
\* 300 ms timeouts of handleReset, shuffles the 400 ms timeouts
AppIdle ==
    [readingMode |-> "single", selectedCards |-> <<>>, isModalOpen |-> FALSE,
     isShuffling |-> FALSE, readings |-> <<>>, resets |-> 0, shuffles |-> 0]

\* selectedCards.find(c => c.id === card.id)
find(selectedCards, card) ==
    \E k \in 1..Len(selectedCards) : selectedCards[k].id = card.id

handleCardSelectUnchecked(a, card) ==
    IF a.isShuffling \/ a.isModalOpen THEN a
    ELSE IF a.readingMode = "single"
    THEN [a EXCEPT !.selectedCards = <<card>>, !.isModalOpen = TRUE]
    ELSE [a EXCEPT !.selectedCards = Append(@, card)]

\* const handleCardSelect = (card) => ...
handleCardSelect(a, card) ==
    IF a.isShuffling \/ a.isModalOpen THEN a
    ELSE IF a.readingMode = "single"
    THEN [a EXCEPT !.selectedCards = <<card>>, !.isModalOpen = TRUE]
    ELSE IF Len(a.selectedCards) < 3 /\ ~find(a.selectedCards, card)
    THEN [a EXCEPT !.selectedCards = Append(@, card)]
    ELSE a

\* const handleReset = () => ...: closes the modal and sets the 300 ms timeout
handleReset(a) == [a EXCEPT !.isModalOpen = FALSE, !.resets = @ + 1]

\* the callback of handleReset's 300 ms timeout, which reads the journal and
\* sets a 400 ms timeout
resetTimeout(a, st) ==
    [a EXCEPT !.selectedCards = <<>>, !.isShuffling = TRUE,
              !.readings = getReadings(st).value, !.resets = @ - 1,
              !.shuffles = @ + 1]

\* const handleModeChange = (mode) => ...: sets a 400 ms timeout
handleModeChange(a, mode) ==
    [a EXCEPT !.readingMode = mode, !.selectedCards = <<>>, !.isShuffling = TRUE,
              !.shuffles = @ + 1]

\* the callback of a 400 ms timeout
shuffleTimeout(a) == [a EXCEPT !.isShuffling = FALSE, !.shuffles = @ - 1]

\* ---------------------------------------------------------- MessageModal.tsx
\* how a call of callMessageAPI or callImageAPI ends: with the response's JSON
\* ("ok"), or throwing because fetch rejected ("network"), the status was not
\* 2xx ("status"), or the request timed out ("timeout")
CallOutcomes == {"ok", "network", "status", "timeout"}

\* the text of the error banner
ErrorText == <<"generation failed, check the network connection and retry">>

\* the useState hooks of MessageModal
ModalState ==
    [generatedMessages |-> <<>>, isMessageLoading |-> FALSE,
     generatedImageUrl |-> Null, isImageLoading |-> FALSE, error |-> Null]

ModalIdle ==
    /\ app = AppIdle
    /\ modal = ModalState
    /\ runs = <<>>

\* callMessageAPI, callImageAPI: the promise resolves with the response's JSON
\* or is rejected with the error that was thrown
callAPI(outcome) == IF outcome = "ok" THEN "resolved" ELSE "rejected"

\* a call of generateAllContent up to its first await: the closure's mode and
\* cards, the state of its calls ("none": not issued, "pending", "resolved",
\* "rejected"), the fetches issued, the values of its promises and locals;
\* erred, saved and reading record what became of it
NewRun(mode, cards) ==
    [mode |-> mode, cards |-> cards, text |-> "pending",
     image |-> IF mode = "single" THEN "pending" ELSE "none",
     textRequests |-> 1, imageRequests |-> IF mode = "single" THEN 1 ELSE 0,
     messages |-> <<>>, imageUrl |-> Null,
     finalMessages |-> <<>>, finalImageUrl |-> Null,
     erred |-> FALSE, saved |-> 0, reading |-> NoReading]

\* a run that ended before the last step
Ended ==
    [mode |-> "ended", cards |-> <<>>, text |-> "none", image |-> "none",
     textRequests |-> 0, imageRequests |-> 0, messages |-> <<>>, imageUrl |-> Null,
     finalMessages |-> <<>>, finalImageUrl |-> Null,
     erred |-> FALSE, saved |-> 0, reading |-> NoReading]

\* the runs at the start of a step: those that ended keep no record
live(rs) == [r \in DOMAIN rs |-> IF rs[r].saved > 0 THEN Ended ELSE rs[r]]

\* generateAllContent, from its call to its first await
generateAllContent(m, rs, isOpen, cards) ==
    IF ~isOpen \/ Len(cards) = 0 THEN [modal |-> m, runs |-> rs]
    ELSE LET mode == IF Len(cards) = 1 THEN "single" ELSE "three"
         IN  [modal |-> [m EXCEPT !.error = Null,
                                  !.generatedMessages = <<>>,
                                  !.generatedImageUrl = Null,
                                  !.isMessageLoading = TRUE,
                                  !.isImageLoading = IF mode = "single" THEN TRUE ELSE @],
              runs |-> Append(rs, NewRun(mode, cards))]

\* useEffect(..., [isOpen, cards, generateAllContent]) after a render in which
\* App's state went from a to b
useEffect(a, b, m, rs) ==
    IF /\ <<a.isModalOpen, a.selectedCards>> # <<b.isModalOpen, b.selectedCards>>
       /\ b.isModalOpen
       /\ Len(b.selectedCards) > 0
    THEN generateAllContent(m, rs, b.isModalOpen, b.selectedCards)
    ELSE [modal |-> m, runs |-> rs]

\* response.messages of a 2xx response
messagesFor(cards) == [i \in 1..Len(cards) |-> TextFor(cards[i])]

defaultMessagesReversed(cards) ==
    [i \in 1..Len(cards) |-> cards[Len(cards) + 1 - i].message]

\* cards.map(c => c.message)
defaultMessages(cards) == [i \in 1..Len(cards) |-> cards[i].message]

\* the number of further fetches a call makes when its fetch ended as outcome
refetchesOnFailure(outcome) == IF outcome = "ok" THEN 0 ELSE 1

refetches(outcome) == 0

\* imagePromise from the await of callImageAPI on
imageSettled(m, run, outcome) ==
    LET imageUrl == IF outcome = "ok" THEN ImageUrl ELSE Null
    IN  [modal |-> [m EXCEPT !.generatedImageUrl = imageUrl,
                             !.isImageLoading = FALSE],
         run |-> [run EXCEPT !.image = callAPI(outcome), !.imageUrl = imageUrl,
                             !.imageRequests = @ + refetches(outcome)]]

messageSettledEmpty(m, run, outcome) ==
    LET messages == IF outcome = "ok" THEN messagesFor(<<run.cards[1]>>) ELSE <<>>
    IN  [modal |-> [m EXCEPT !.generatedMessages = messages],
         run |-> [run EXCEPT !.text = callAPI(outcome), !.messages = messages,
                             !.textRequests = @ + refetches(outcome)]]

\* messagePromise from the await of callMessageAPI on
messageSettled(m, run, outcome) ==
    LET messages == IF outcome = "ok" THEN messagesFor(<<run.cards[1]>>)
                    ELSE <<run.cards[1].message>>
    IN  [modal |-> [m EXCEPT !.generatedMessages = messages],
         run |-> [run EXCEPT !.text = callAPI(outcome), !.messages = messages,
                             !.textRequests = @ + refetches(outcome)]]

\* the three-card branch from the await of callMessageAPI on, and the outer
\* catch block when the call throws
threeSettled(m, run, outcome) ==
    IF outcome = "ok"
    THEN [modal |-> [m EXCEPT !.generatedMessages = messagesFor(run.cards)],
          run |-> [run EXCEPT !.text = callAPI(outcome),
                              !.finalMessages = messagesFor(run.cards),
                              !.textRequests = @ + refetches(outcome)]]
    ELSE [modal |-> [m EXCEPT !.error = ErrorText,
                              !.generatedMessages = defaultMessages(run.cards)],
          run |-> [run EXCEPT !.text = callAPI(outcome), !.erred = TRUE,
                              !.finalMessages = defaultMessages(run.cards),
                              !.textRequests = @ + refetches(outcome)]]

\* the continuation of the call that settled
settled(m, run, call, outcome) ==
    IF call = "image" THEN imageSettled(m, run, outcome)
    ELSE IF run.mode = "single" THEN messageSettled(m, run, outcome)
    ELSE threeSettled(m, run, outcome)

anySettled(run) == run.text # "pending" \/ run.image # "pending"

\* await Promise.all([imagePromise, messagePromise]), or the await of the one
\* call of the three-card branch: every call that was issued has settled
allSettled(run) == run.text # "pending" /\ run.image # "pending"

\* generateAllContent from there on: the locals, finally, newReading
finished(m, run) ==
    LET finalImageUrl == IF run.mode = "single" THEN run.imageUrl
                         ELSE run.finalImageUrl
        finalMessages == IF run.mode = "single" THEN run.messages
                         ELSE run.finalMessages
    IN  [modal |-> [m EXCEPT !.isMessageLoading = FALSE],
         run |-> [run EXCEPT !.finalImageUrl = finalImageUrl,
                             !.finalMessages = finalMessages,
                             !.saved = @ + 1,
                             !.reading = [mode |-> run.mode, cards |-> run.cards,
                                          generatedMessages |-> finalMessages,
                                          generatedImageUrl |-> finalImageUrl]]]

\* the run from the settling of a call to its next await, or to its end
resumed(m, run, call, outcome) ==
    LET step == settled(m, run, call, outcome)
    IN  IF allSettled(step.run) THEN finished(step.modal, step.run) ELSE step

\* A call of a run settles; the run goes on to its next await, or to its end,
\* where it calls saveReading (the storage accepts the write).
Settle(r, call, outcome) ==
    /\ r \in DOMAIN runs
    /\ runs[r][call] = "pending"
    /\ LET next == resumed(modal, runs[r], call, outcome)
       IN  /\ modal' = next.modal
           /\ runs' = [live(runs) EXCEPT ![r] = next.run]
           /\ IF next.run.saved > 0
              THEN CallSaveReading(next.run.reading, "ok", "ok")
              ELSE UNCHANGED <<journalVars, serverVars, monitorVars, hardenedVars>>
    /\ UNCHANGED app

\* what a step in which the call settles makes of runs; no other step of a
\* session does the same to runs
RunResumes(r, call) ==
    /\ r \in DOMAIN runs
    /\ runs[r][call] = "pending"
    /\ \E outcome \in CallOutcomes :
           runs' = [live(runs) EXCEPT
                       ![r] = resumed(modal, runs[r], call, outcome).run]

CallSettles(r, call) == \E outcome \in CallOutcomes : Settle(r, call, outcome)

SettleAny == \E r \in 1..MaxRuns, call \in {"text", "image"} : CallSettles(r, call)

\* the cards the user clicks: the deck's first card for a single draw, its
\* first three in turn for a three-card draw
Picks(a) ==
    IF a.readingMode = "single" THEN {Card(1)}
    ELSE {card \in Deck : card.id = Len(a.selectedCards) + 1}

\* The user picks a card; in single mode the modal opens and its effect runs.
SelectCard ==
    /\ \E card \in Picks(app) :
           LET selected == handleCardSelect(app, card)
               effect == useEffect(app, selected, modal, live(runs))
           IN  /\ selected # app
               /\ Len(effect.runs) <= MaxRuns
               /\ app' = selected
               /\ modal' = effect.modal
               /\ runs' = effect.runs
    /\ UNCHANGED <<journalVars, serverVars, monitorVars, hardenedVars>>

\* The button shown in three mode with three cards selected:
\* onClick={() => setIsModalOpen(true)}, and the modal's effect.
ViewResults ==
    /\ app.readingMode = "three"
    /\ Len(app.selectedCards) = 3
    /\ ~app.isModalOpen
    /\ Len(runs) < MaxRuns
    /\ LET opened == [app EXCEPT !.isModalOpen = TRUE]
           effect == useEffect(app, opened, modal, live(runs))
       IN  /\ app' = opened
           /\ modal' = effect.modal
           /\ runs' = effect.runs
    /\ UNCHANGED <<journalVars, serverVars, monitorVars, hardenedVars>>

\* The retry button of the error banner: onClick={generateAllContent}.
Retry ==
    /\ app.isModalOpen
    /\ Len(app.selectedCards) > 0
    /\ modal.error # Null
    /\ Len(runs) < MaxRuns
    /\ LET again == generateAllContent(modal, live(runs), app.isModalOpen,
                                       app.selectedCards)
       IN  /\ modal' = again.modal
           /\ runs' = again.runs
    /\ UNCHANGED <<app, journalVars, serverVars, monitorVars, hardenedVars>>

CloseAborting ==
    /\ app.isModalOpen
    /\ Len(app.selectedCards) > 0
    /\ app.resets + app.shuffles < MaxTimers
    /\ app' = handleReset(app)
    /\ runs' = [r \in DOMAIN runs |->
                   IF live(runs)[r].mode = "ended" THEN Ended
                   ELSE [runs[r] EXCEPT !.text = "none", !.image = "none"]]
    /\ UNCHANGED <<modal, journalVars, serverVars, monitorVars, hardenedVars>>

\* The user closes the modal: onClose={handleReset}.
Close ==
    /\ app.isModalOpen
    /\ Len(app.selectedCards) > 0
    /\ app.resets + app.shuffles < MaxTimers
    /\ app' = handleReset(app)
    /\ runs' = live(runs)
    /\ UNCHANGED <<modal, journalVars, serverVars, monitorVars, hardenedVars>>

ResetTimeout ==
    /\ app.resets > 0
    /\ app' = resetTimeout(app, storage)
    /\ runs' = live(runs)
    /\ UNCHANGED <<modal, journalVars, serverVars, monitorVars, hardenedVars>>

ShuffleTimeout ==
    /\ app.shuffles > 0
    /\ app' = shuffleTimeout(app)
    /\ runs' = live(runs)
    /\ UNCHANGED <<modal, journalVars, serverVars, monitorVars, hardenedVars>>


Persisted == IF storage.kind = "array" THEN storage.value ELSE <<>>

\* A fresh browser profile; every save is of the usual single-card reading.
Init ==
    /\ storage = Absent
    /\ clock = 0
    /\ last = NoCall
    /\ log = <<>>
    /\ faulted = FALSE
    /\ ServerIdle
    /\ MonitorIdle
    /\ HardenedIdle
    /\ ModalIdle

SaveUsual ==
    /\ Len(log) < MaxSaves
    /\ UNCHANGED modalVars
    /\ \E w1 \in WriteOutcomes, w2 \in WriteOutcomes :
           CallSaveReading(SingleReading, w1, w2)

Next ==
    \/ SaveUsual
    \/ CallClearReadings
    \/ Tick

Spec == Init /\ [][Next]_vars

\* Any content of the storage key, any input reading, on a short journal.
StoredContents ==
    {Absent, Stored("denied", <<>>), Stored("empty", <<>>), Stored("garbage", <<>>),
     Stored("null", <<>>), Stored("object", <<>>), Stored("array", <<>>)}

InitStored ==
    /\ storage \in StoredContents
    /\ clock = 0
    /\ last = NoCall
    /\ log = <<>>
    /\ faulted = FALSE
    /\ ServerIdle
    /\ MonitorIdle
    /\ HardenedIdle
    /\ ModalIdle

SaveAny ==
    /\ Len(Persisted) < MaxShort
    /\ UNCHANGED modalVars
    /\ \E reading \in ReadingInputs, w1 \in WriteOutcomes, w2 \in WriteOutcomes :
           CallSaveReading(reading, w1, w2)

NextStored ==
    \/ SaveAny
    \/ CallClearReadings
    \/ Tick

SpecStored == InitStored /\ [][NextStored]_vars

\* One cold-started instance of either endpoint, serving requests.
InitServer ==
    /\ storage = Absent
    /\ clock = 0
    /\ last = NoCall
    /\ log = <<>>
    /\ faulted = FALSE
    /\ handler \in Handlers
    /\ rateLimitMap = [ip \in Clients |-> NoEntry]
    /\ now = 0
    /\ window = [ip \in Clients |-> NoWindow]
    /\ lastReq = NoRequest
    /\ MonitorIdle
    /\ HardenedIdle
    /\ ModalIdle

NextServer ==
    \/ Request
    \/ ServerTick

SpecServer == InitServer /\ [][NextServer]_vars

\* The security middleware, watching one address from a cold start.
InitMonitor ==
    /\ storage = Absent
    /\ clock = 0
    /\ last = NoCall
    /\ log = <<>>
    /\ faulted = FALSE
    /\ ServerIdle
    /\ MonitorIdle
    /\ HardenedIdle
    /\ ModalIdle

NextMonitor ==
    \/ Monitor
    \/ MonitorTick

SpecMonitor == InitMonitor /\ [][NextMonitor]_vars

\* validateRequest of one endpoint module, called with body after body.
ValidateRequest ==
    /\ \E body \in Bodies(handler) :
           LET validation == validateRequest(handler, body, lastIndex)
           IN  /\ lastIndex' = validation.lastIndex
               /\ served' = Served("validateRequest", "none", "none", body, FALSE,
                                   validation.isValid,
                                   Response(0, validation.error, FALSE, <<>>))
    /\ UNCHANGED <<securityLogMap, journalVars, serverVars, monitorVars, modalVars>>

ValidateRequestBasic ==
    /\ handler = "generateMessage"
    /\ \E body \in MessageBodies :
           LET validation == validateRequestBasic(body)
           IN  served' = Served("validateRequestBasic", "none", "none", body, FALSE,
                                validation.isValid,
                                Response(0, validation.error, FALSE, <<>>))
    /\ UNCHANGED <<securityLogMap, lastIndex, journalVars, serverVars, monitorVars,
                 modalVars>>

InitEndpoint ==
    /\ storage = Absent
    /\ clock = 0
    /\ last = NoCall
    /\ log = <<>>
    /\ faulted = FALSE
    /\ handler \in Handlers
    /\ rateLimitMap = [ip \in Clients |-> NoEntry]
    /\ now = 0
    /\ window = [ip \in Clients |-> NoWindow]
    /\ lastReq = NoRequest
    /\ MonitorIdle
    /\ HardenedIdle
    /\ ModalIdle

NextValidator ==
    \/ ValidateRequest
    \/ ValidateRequestBasic

SpecValidator == InitEndpoint /\ [][NextValidator]_vars

\* One cold-started instance of either hardened endpoint; every kind of request,
\* followed for a few requests beyond the window limit.
HandlerBodies(h) ==
    IF h = "generateImage" THEN {PromptBody, NsfwBody}
    ELSE {SingleBody, ThreeBody, ScriptBody, UriBody,
          MessageBody("three", <<GoodCard, GoodCard>>, 0)}

\* the provider answers only when it is called, that is with a usable key
OutcomesWith(apiKey) == IF apiKey = "valid" THEN ProviderOutcomes ELSE {"ok"}

ServeAny ==
    /\ \E ip \in HardenedClients :
           /\ securityLogMap[ip].attempts < RATE_LIMIT(handler) + MaxExcess
           /\ \/ Serve(ip, "GET", NoBody, "valid", "ok", FetchFailed, "production")
              \/ \E body \in HandlerBodies(handler), apiKey \in ApiKeys :
                     \E outcome \in OutcomesWith(apiKey) :
                         Serve(ip, "POST", body, apiKey, outcome, FetchFailed,
                               "production")
    /\ UNCHANGED <<handler, now, window, lastReq, journalVars, monitorVars, modalVars>>

NextHardened ==
    \/ ServeAny
    \/ HardenedTick

SpecHardened == InitEndpoint /\ [][NextHardened]_vars

\* The same instance under a long run of requests of one client, well-formed
\* or without a body.
UsualBody(h) == IF h = "generateImage" THEN PromptBody ELSE SingleBody

ServeUsual ==
    /\ \E ip \in HardenedClients :
           /\ securityLogMap[ip].attempts < SUSPICION(handler) + MaxExcess
           /\ \E body \in {UsualBody(handler), NoBody}, outcome \in {"ok", "throws"} :
                  Serve(ip, "POST", body, "valid", outcome, FetchFailed,
                        "production")
    /\ UNCHANGED <<handler, now, window, lastReq, journalVars, monitorVars, modalVars>>

NextSuspicion ==
    \/ ServeUsual
    \/ HardenedTick

SpecSuspicion == InitEndpoint /\ [][NextSuspicion]_vars

\* One cold-started instance of either hardened endpoint whose provider calls
\* fail in every way, followed for a few requests; process.env.NODE_ENV is read
\* anew by every request.
\* messages of the errors the provider call throws
KeyRejected ==
    <<"A", "P", "I", " ", "k", "e", "y", " ", "n", "o", "t", " ", "v", "a", "l",
    "i", "d">>

QuotaOfKey ==
    <<"q", "u", "o", "t", "a", " ", "e", "x", "c", "e", "e", "d", "e", "d", " ",
    "f", "o", "r", " ", "A", "P", "I", " ", "k", "e", "y">>

QuotaOfPermission ==
    <<"p", "e", "r", "m", "i", "s", "s", "i", "o", "n", " ", "q", "u", "o", "t",
    "a", " ", "e", "x", "c", "e", "e", "d", "e", "d">>

QuotaExceeded ==
    <<"q", "u", "o", "t", "a", " ", "e", "x", "c", "e", "e", "d", "e", "d">>

PermissionDenied ==
    <<"p", "e", "r", "m", "i", "s", "s", "i", "o", "n", " ", "d", "e", "n", "i",
    "e", "d">>

ErrorMessages ==
    {KeyRejected, QuotaOfKey, QuotaOfPermission, QuotaExceeded, PermissionDenied,
     FetchFailed, Undefined}

NodeEnvs == {"development", "production"}

FailureBodies(h) == IF h = "generateImage" THEN {PromptBody} ELSE {SingleBody, ThreeBody}

ServeFailing ==
    /\ \E ip \in HardenedClients :
           /\ securityLogMap[ip].attempts <= MaxExcess
           /\ \E body \in FailureBodies(handler), apiKey \in ApiKeys,
                 nodeEnv \in NodeEnvs :
                  \/ \E outcome \in OutcomesWith(apiKey) \ {"throws"} :
                         Serve(ip, "POST", body, apiKey, outcome, Undefined, nodeEnv)
                  \/ /\ apiKey = "valid"
                     /\ \E message \in ErrorMessages :
                            Serve(ip, "POST", body, apiKey, "throws", message, nodeEnv)
    /\ UNCHANGED <<handler, now, window, lastReq, journalVars, monitorVars, modalVars>>

NextFailure ==
    \/ ServeFailing
    \/ HardenedTick

SpecFailure == InitEndpoint /\ [][NextFailure]_vars

\* One session of the application in either reading mode: the user draws,
\* closes, retries, while the calls of the runs settle in any order and with any
\* outcome.
InitModal ==
    /\ storage = Absent
    /\ clock = 0
    /\ last = NoCall
    /\ log = <<>>
    /\ faulted = FALSE
    /\ ServerIdle
    /\ MonitorIdle
    /\ HardenedIdle
    /\ app \in {[AppIdle EXCEPT !.readingMode = mode] : mode \in ReadingModes}
    /\ modal = ModalState
    /\ runs = <<>>

NextModal ==
    \/ SelectCard
    \/ ViewResults
    \/ Retry
    \/ Close
    \/ ResetTimeout
    \/ ShuffleTimeout
    \/ SettleAny

SpecModal == InitModal /\ [][NextModal]_vars

\* A session in which the user waits for the run of one draw to end before
\* drawing or retrying, but closes the modal at any time; every call settles
\* and its run resumes: each fetch carries AbortSignal.timeout, and the
\* continuations are microtasks.  Every timeout that was set runs its callback:
\* no clearTimeout is ever called.
NoRunInFlight == \A r \in DOMAIN runs : allSettled(runs[r])

SelectCardIdle == NoRunInFlight /\ SelectCard

ViewResultsIdle == NoRunInFlight /\ ViewResults

RetryIdle == NoRunInFlight /\ Retry

NextPatient ==
    \/ SelectCardIdle
    \/ ViewResultsIdle
    \/ RetryIdle
    \/ Close
    \/ ResetTimeout
    \/ ShuffleTimeout
    \/ SettleAny

SpecModalFair ==
    /\ InitModal
    /\ [][NextPatient]_vars
    /\ \A r \in 1..MaxRuns, call \in {"text", "image"} : WF_runs(RunResumes(r, call))
    /\ WF_app(ResetTimeout)
    /\ WF_app(ShuffleTimeout)

\* One session of the application in which the user clicks any card of the
\* deck, selected or not, and changes the reading mode at any time, also
\* between handleReset and its timeouts.  The calls of the runs stay pending:
\* their settling changes neither App's state nor the cards of a run.
SelectAny ==
    /\ \E card \in Deck :
           LET selected == handleCardSelect(app, card)
               effect == useEffect(app, selected, modal, live(runs))
           IN  /\ selected # app
               /\ Len(effect.runs) <= MaxRuns
               /\ app' = selected
               /\ modal' = effect.modal
               /\ runs' = effect.runs
    /\ UNCHANGED <<journalVars, serverVars, monitorVars, hardenedVars>>

\* One of the two mode buttons: onClick={() => handleModeChange(mode)}.
ModeChange ==
    /\ app.resets + app.shuffles < MaxTimers
    /\ \E mode \in ReadingModes :
           LET changed == handleModeChange(app, mode)
               effect == useEffect(app, changed, modal, live(runs))
           IN  /\ app' = changed
               /\ modal' = effect.modal
               /\ runs' = effect.runs
    /\ UNCHANGED <<journalVars, serverVars, monitorVars, hardenedVars>>

NextApp ==
    \/ SelectAny
    \/ ViewResults
    \/ ModeChange
    \/ Close
    \/ ResetTimeout
    \/ ShuffleTimeout

SpecApp == InitModal /\ [][NextApp]_vars

\* ------------------------------------------------------------------- claims

\* The saved reading carries the content of the reading handed in at time t.
Matches(saved, reading, t) ==
    /\ saved.id = toISOString(t)
    /\ saved.mode = reading.mode
    /\ saved.cards = reading.cards
    /\ saved.generatedMessages = reading.generatedMessages

Written == last.op = "saveReading" /\ ~last.logged

\* C1: the persisted journal never holds more than 20 readings, and as long as
\* every save completed on its first write it holds the min(n, 20) most recent
\* of the n readings saved, newest first; so 25 saves leave the newest 20.
JournalBounded ==
    /\ Len(Persisted) <= HISTORY_LIMIT
    /\ ~faulted =>
         /\ Len(Persisted) = Min(Len(log), HISTORY_LIMIT)
         /\ \A i \in 1..Len(Persisted) :
                Matches(Persisted[i], log[i].reading, log[i].at)

TwentyFiveSavesLeaveTwenty ==
    /\ ~faulted
    /\ Len(log) = 25
    /\ Len(Persisted) = 20
    /\ Persisted[1].id # Persisted[20].id
    /\ log[25].at # log[20].at

\* C2: no persisted reading carries an image URL, whatever the input carried,
\* on the first write and on the reduced retry write.
NoImagePersisted ==
    \A i \in 1..Len(Persisted) : Persisted[i].generatedImageUrl = Null

ImageStrippedOnRetry ==
    /\ Written
    /\ Len(last.attempted) = 2
    /\ last.reading.generatedImageUrl # Null
    /\ Persisted[1].generatedImageUrl = Null

\* C3: a quota failure of the first write of a 20-entry journal is followed by
\* exactly one more write, of the newest 10 entries; when that write succeeds
\* the journal is the new reading followed by the 9 newest earlier ones, and
\* saveReading does not throw.
QuotaRetryKeepsNewestTen ==
    [][(/\ last'.op = "saveReading"
        /\ Len(last'.attempted) >= 2
        /\ last'.attempted[1] = HISTORY_LIMIT)
       => /\ last'.attempted = <<HISTORY_LIMIT, REDUCED_LIMIT>>
          /\ ~last'.threw
          /\ ~last'.logged =>
               /\ Len(Persisted') = REDUCED_LIMIT
               /\ Matches(Persisted'[1], last'.reading, clock)
               /\ \A i \in 2..REDUCED_LIMIT : Persisted'[i] = Persisted[i - 1]]_vars

RetriedAtTwenty ==
    /\ Written
    /\ last.attempted = <<20, 10>>
    /\ Len(Persisted) = 10
    /\ Persisted[1].id # Persisted[10].id

\* C4: saveReading never throws to its caller, whether the journal read, the
\* first write or the retry write fails; a failure is logged.
SaveNeverThrows ==
    last.op = "saveReading" =>
        /\ ~last.threw
        /\ last.logged \/ storage.kind = "array"

RetryFailureSwallowed ==
    /\ last.op = "saveReading"
    /\ Len(last.attempted) = 2
    /\ last.logged
    /\ ~last.threw

\* C5: getReadings never throws and returns a sequence, for every content of
\* the storage key.
GetReadingsReturnsSequence ==
    LET got == getReadings(storage)
    IN  ~got.threw /\ got.json = "array"

TextFields(reading) ==
    {reading.cards[i].name : i \in 1..Len(reading.cards)}
    \cup {reading.cards[i].description : i \in 1..Len(reading.cards)}
    \cup {reading.cards[i].message : i \in 1..Len(reading.cards)}
    \cup {reading.generatedMessages[i] : i \in 1..Len(reading.generatedMessages)}

RawCharacters == {"<", ">", "\"", "'"}

\* C6: every text field of a saved reading went through sanitizeUserInput, so
\* no persisted text field holds a raw <, >, " or '.
PersistedTextEscaped ==
    /\ \A i \in 1..Len(Persisted) : \A text \in TextFields(Persisted[i]) :
           \A k \in 1..Len(text) : text[k] \notin RawCharacters
    /\ Written =>
           \A i \in 1..Len(last.reading.generatedMessages) :
               last.reading.generatedMessages[i] # Null =>
                   Persisted[1].generatedMessages[i]
                       = sanitizeUserInput(last.reading.generatedMessages[i])

\* C7: right after a successful saveReading(r), getReadings()[0] is r in mode,
\* cards and generatedMessages, with an id and a date added and no image URL.
RoundTrip ==
    Written =>
        LET got == getReadings(storage)
        IN  /\ got.json = "array"
            /\ Len(got.value) >= 1
            /\ Matches(got.value[1], last.reading, clock)
            /\ got.value[1].date = toLocaleString(clock)
            /\ got.value[1].generatedImageUrl = Null

ThreeCardRoundTrip ==
    /\ Written
    /\ last.reading = ThreeReading
    /\ getReadings(storage).value[1].generatedMessages[2] = Null
    /\ Len(getReadings(storage).value) = 2

\* ids compare as the times they were made from
IdLeq(a, b) == a[1] < b[1] \/ (a[1] = b[1] /\ a[2] <= b[2])

SortedNewestFirst ==
    \A i \in 1..Len(Persisted) : \A j \in i..Len(Persisted) :
        IdLeq(Persisted[j].id, Persisted[i].id)

\* C8: the journal is ordered newest first: a successful save puts the new
\* reading first and keeps the surviving readings in their order, so the
\* save times never increase along the journal.
JournalNewestFirst ==
    /\ []SortedNewestFirst
    /\ [][(last'.op = "saveReading" /\ ~last'.logged)
          => /\ Len(Persisted') >= 1
             /\ Matches(Persisted'[1], last'.reading, clock)
             /\ \A i \in 2..Len(Persisted') : Persisted'[i] = Persisted[i - 1]]_vars

NewerBeforeOlder ==
    /\ Written
    /\ Len(Persisted) >= 3
    /\ Persisted[1].id # Persisted[3].id

\* C9: the ids of the persisted readings are pairwise distinct, whatever the
\* timing of the saves.
IdsPairwiseDistinct ==
    \A i \in 1..Len(Persisted) : \A j \in 1..Len(Persisted) :
        i # j => Persisted[i].id # Persisted[j].id

\* C10: per client, the first N requests of a window are allowed and every
\* further request within the window is denied; the first request after the
\* window has run out is allowed and counted as the first of a new window
\* (N = 10 on the message endpoint, 5 on the image endpoint).
WindowLimitEnforced ==
    lastReq.method = "POST" =>
        LET w == window[lastReq.ip]
            entry == rateLimitMap[lastReq.ip]
        IN  /\ (lastReq.status # 429) <=> (w.seen <= RATE_LIMIT(handler))
            /\ w.seen = 1 =>
                   entry = Entry(1, now + RATE_LIMIT_WINDOW)

DeniedThenAllowedAgain ==
    /\ lastReq.method = "POST"
    /\ lastReq.status = 200
    /\ window[lastReq.ip].seen = 1
    /\ window[lastReq.ip].start > RATE_LIMIT_WINDOW
    /\ \E other \in Clients \ {lastReq.ip} :
           window[other].seen > RATE_LIMIT(handler)

\* C13: monitorIP puts an address on the permanent block list only when its
\* attempt count is above the temporary-block threshold MAX_ATTEMPTS_PER_HOUR.
PermanentAboveTemporary ==
    \A ip \in BLOCKED_IPS : SUSPICIOUS_IPS[ip].attempts > MAX_ATTEMPTS_PER_HOUR

\* C14: a monitorIP call for a permanently blocked address returns blocked,
\* whatever the action and the time elapsed, and leaves the address's attempt
\* count and last-attempt time (and the block list) as they were.
PermanentBlockFinal ==
    [][(lastMonitor'.action \in MonitorActions /\ lastMonitor'.ip \in BLOCKED_IPS)
       => /\ lastMonitor'.blocked
          /\ SUSPICIOUS_IPS' = SUSPICIOUS_IPS
          /\ BLOCKED_IPS' = BLOCKED_IPS]_vars

BlockedAfterAnHour ==
    /\ lastMonitor.action = "success"
    /\ lastMonitor.listed
    /\ lastMonitor.blocked
    /\ now - SUSPICIOUS_IPS[lastMonitor.ip].lastAttempt > BLOCK_DURATION

SuspicionDenial == "IP temporarily blocked due to suspicious activity"

\* C11: the suspicion block of the hardened endpoints expires: a request made
\* an hour or more after the client's previous request is not denied for
\* suspicion.
SoftBlockExpires ==
    [][(/\ served'.op = "handler"
        /\ served'.method = "POST"
        /\ securityLogMap[served'.ip].present
        /\ now - securityLogMap[served'.ip].lastAttempt >= HOUR)
       => served'.error # SuspicionDenial]_vars

\* C12: a request that is allowed, valid and served with 200 lowers the
\* client's suspicion counter.
SuccessDecaysSuspicion ==
    [][(/\ served'.op = "handler"
        /\ served'.status = 200
        /\ securityLogMap[served'.ip].present)
       => securityLogMap'[served'.ip].attempts
              < securityLogMap[served'.ip].attempts]_vars

\* C15: the provider is called only for a POST request that the rate limiter
\* allowed, that passed validateRequest and for which the API key is usable.
ProviderCallGated ==
    served.called =>
        /\ served.method = "POST"
        /\ served.allowed
        /\ served.isValid
        /\ served.keyed
        /\ served.status \in {200, 500}

CalledOnLastOfWindow ==
    /\ served.called
    /\ served.status = 200
    /\ rateLimitMap[served.ip].count = RATE_LIMIT(handler)
    /\ securityLogMap[served.ip].attempts > RATE_LIMIT(handler)

\* what mode requires of cards.length
CardsFor(mode) == IF mode = "single" THEN 1 ELSE 3

\* C16: the message validators accept a request only if its mode is single or
\* three and its cards array has exactly 1 or 3 cards accordingly; an empty or
\* mismatched array and any other mode are rejected.
CardinalityMatchesMode ==
    (/\ served.op \in {"validateRequest", "validateRequestBasic"}
     /\ handler = "generateMessage"
     /\ served.isValid)
    => /\ served.body.isArray
       /\ served.body.mode \in {"single", "three"}
       /\ Len(served.body.cards) = CardsFor(served.body.mode)

TwoCardsForThreeRejected ==
    /\ served.op = "validateRequest"
    /\ served.body = MessageBody("three", <<GoodCard, GoodCard>>, 0)
    /\ ~served.isValid
    /\ served.error = "Three mode requires exactly 3 cards"

\* a text is unfit as a card name or description of at most max characters
Unfit(text, max) == text = <<>> \/ ~IsString(text) \/ Len(text) > max

Denied(h, text) ==
    IsString(text) /\ ~scanPatterns(BLOCKED_PATTERNS(h), text, FreshLastIndex, 1).isValid

\* The rules of the validator that a body violates, by their number.
ViolatedRules(h, body) ==
    IF body.kind # "object" THEN {1}
    ELSE (IF requestSize(body) > MAX_REQUEST_SIZE(h) THEN {1} ELSE {})
    \cup (IF h = "generateImage"
          THEN (IF Denied(h, body.prompt) THEN {4} ELSE {})
               \cup (IF \/ body.prompt = <<>>
                        \/ ~IsString(body.prompt)
                        \/ Len(trim(body.prompt)) = 0
                        \/ Len(body.prompt) > MAX_PROMPT_LENGTH
                     THEN {5} ELSE {})
          ELSE (IF \/ ~body.isArray
                   \/ Len(body.cards) = 0
                   \/ body.mode \notin {"single", "three"}
                   \/ Len(body.cards) # CardsFor(body.mode)
                THEN {2} ELSE {})
               \cup (IF \E k \in 1..Len(body.cards) :
                           \/ body.cards[k].kind # "object"
                           \/ Unfit(body.cards[k].name, MAX_CARD_NAME_LENGTH)
                           \/ Unfit(body.cards[k].description, MAX_CARD_DESC_LENGTH)
                     THEN {3} ELSE {})
               \cup (IF \E k \in 1..Len(body.cards) :
                           \/ Denied(h, body.cards[k].name)
                           \/ Denied(h, body.cards[k].description)
                     THEN {4} ELSE {}))

\* the rule a rejection reason belongs to
RuleOf(error) ==
    CASE error \in {"Invalid request body", "Request payload too large"} -> 1
      [] error \in {"Cards array is required and must not be empty",
                    "Mode must be either \"single\" or \"three\"",
                    "Single mode requires exactly 1 card",
                    "Three mode requires exactly 3 cards"} -> 2
      [] error \in {"Invalid card structure", "Invalid card name",
                    "Invalid card description"} -> 3
      [] error \in {"Content contains blocked patterns",
                    "Content contains inappropriate or blocked patterns"} -> 4
      [] error \in {"Prompt is required and must be a non-empty string",
                    "Prompt is too long (max 800 characters)"} -> 5

\* C17: the reason of a rejection by validateRequest is that of the earliest
\* rule the body violates, in the order 1 body and size, 2 mode and
\* cardinality, 3 name and description, 4 denylist, 5 image prompt.
EarliestViolatedRuleWins ==
    (served.op = "validateRequest" /\ ~served.isValid) =>
        /\ ViolatedRules(handler, served.body) # {}
        /\ \A rule \in ViolatedRules(handler, served.body) :
               RuleOf(served.error) <= rule

\* text holds word, letters compared without regard to case
Contains(word, text) == IsString(text) /\ execWord(word, text, 0).matched

Scripted(text) ==
    \/ Contains(<<"<", "s", "c", "r", "i", "p", "t", ">">>, text)
    \/ Contains(Chars("javascript:"), text)

\* C18: the hardened message handler answers 400 to every request it lets past
\* the rate limiter in which a card name or description holds <script> or
\* javascript: in any letter case, whatever requests came before.
ScriptedRequestRejected ==
    (/\ served.op = "handler"
     /\ handler = "generateMessage"
     /\ served.allowed
     /\ \E k \in 1..Len(served.body.cards) :
            \/ Scripted(served.body.cards[k].name)
            \/ Scripted(served.body.cards[k].description))
    => served.status = 400

\* C19: validateRequest returns for a body the verdict it returns for it on a
\* freshly loaded module, whatever bodies were validated before.
VerdictDependsOnBodyOnly ==
    served.op = "validateRequest" =>
        served.isValid = validateRequest(handler, served.body, FreshLastIndex).isValid

\* C20: a 200 response of the message handler carries one message per card, 1
\* in single mode and 3 in three mode, the i-th message being the provider's
\* text for the i-th card (past, present, future) where the provider gave one.
OneMessagePerCard ==
    (served.op = "handler" /\ handler = "generateMessage" /\ served.status = 200) =>
        /\ Len(served.messages) = Len(served.body.cards)
        /\ Len(served.messages) = CardsFor(served.body.mode)
        /\ \A i \in 1..Len(served.messages) :
               served.messages[i] \in {TextFor(served.body.cards[i]), Null}

PastPresentFuture ==
    /\ served.op = "handler"
    /\ served.status = 200
    /\ served.body = ThreeBody
    /\ served.messages = <<TextFor(ThreeBody.cards[1]), TextFor(ThreeBody.cards[2]),
                           TextFor(ThreeBody.cards[3])>>

\* C21: in three-card mode a provider response that is not valid JSON or lacks
\* one of past, present, future is answered 500: a 200 response of the message
\* handler to a three-card request always carries three strings.
ThreeCardResponseValidated ==
    (/\ served.op = "handler"
     /\ handler = "generateMessage"
     /\ served.body.mode = "three"
     /\ served.called)
    => \/ served.status = 500
       \/ /\ served.status = 200
          /\ Len(served.messages) = 3
          /\ \A i \in 1..3 : IsString(served.messages[i])

\* the error has a message that contains the word
Contained(word) == served.thrown # Undefined /\ includes(served.thrown, word)

\* C30: every exception of the provider call is answered 500 with one message
\* of a fixed set, the first that applies of: 'API key' in the error's message,
\* 'quota', 'permission', else the generic failure message; details are present
\* only in development.
ExceptionsMapped ==
    (served.op = "handler" /\ served.caught) =>
        /\ served.status = 500
        /\ Contained(ApiKeyWord) => served.error = "API key is invalid or missing"
        /\ (~Contained(ApiKeyWord) /\ Contained(QuotaWord))
              => served.error = "API quota exceeded"
        /\ (~Contained(ApiKeyWord) /\ ~Contained(QuotaWord)
              /\ Contained(PermissionWord))
              => served.error = "API permission denied"
        /\ (~Contained(ApiKeyWord) /\ ~Contained(QuotaWord)
              /\ ~Contained(PermissionWord))
              => served.error = IF handler = "generateImage"
                                THEN "Failed to generate image from AI"
                                ELSE "Failed to generate content from AI"
        /\ served.details # Undefined => served.nodeEnv = "development"
        /\ served.nodeEnv = "development" => served.details = served.thrown

QuotaOfKeyInDevelopment ==
    /\ served.op = "handler"
    /\ served.caught
    /\ served.thrown = QuotaOfKey
    /\ served.error = "API key is invalid or missing"
    /\ served.nodeEnv = "development"
    /\ served.details = QuotaOfKey

\* the credential is the cause of the failure: it is missing, a placeholder or
\* too short, or the provider rejected it
KeyIsCause ==
    \/ served.allowed /\ served.isValid /\ ~served.keyed
    \/ served.caught /\ served.thrown = KeyRejected

\* C29: an unusable credential is answered 500 with the generic
\* service-unavailable error and nothing about the key, whether the key is
\* missing, a placeholder, too short or rejected by the provider.
CredentialNotRevealed ==
    (served.op = "handler" /\ KeyIsCause) =>
        /\ served.status = 500
        /\ served.error = "Service temporarily unavailable"
        /\ served.details = Undefined

\* the run ended in the last step, handing its reading to saveReading
JustSaved(r) ==
    /\ runs[r].saved > 0
    /\ last.op = "saveReading"
    /\ last.reading = runs[r].reading

\* C22: in single mode, when the image call fails and the text call succeeds
\* the run raises no error and saves the generated message with a null image
\* URL; when the text call fails and the image call succeeds it saves the
\* card's own message with the generated image URL.
SingleRunDegradesPerCall ==
    \A r \in DOMAIN runs :
        (runs[r].saved > 0 /\ runs[r].mode = "single") =>
            /\ (runs[r].image = "rejected" /\ runs[r].text = "resolved") =>
                   /\ ~runs[r].erred
                   /\ modal.error = Null
                   /\ JustSaved(r)
                   /\ runs[r].reading.generatedMessages = <<TextFor(runs[r].cards[1])>>
                   /\ runs[r].reading.generatedImageUrl = Null
            /\ (runs[r].text = "rejected" /\ runs[r].image = "resolved") =>
                   /\ ~runs[r].erred
                   /\ JustSaved(r)
                   /\ runs[r].reading.generatedMessages = <<runs[r].cards[1].message>>
                   /\ runs[r].reading.generatedImageUrl = ImageUrl

TextFellBackImageKept ==
    \E r \in DOMAIN runs :
        /\ JustSaved(r)
        /\ runs[r].mode = "single"
        /\ runs[r].text = "rejected"
        /\ runs[r].image = "resolved"
        /\ runs[r].reading.generatedMessages = <<Card(1).message>>
        /\ runs[r].reading.generatedImageUrl = ImageUrl

\* C23: in three-card mode, when the text call fails, the i-th message of the
\* reading is the i-th card's own message, for each of the three cards.
ThreeRunFallsBackPositionally ==
    \A r \in DOMAIN runs :
        (runs[r].saved > 0 /\ runs[r].mode = "three" /\ runs[r].text = "rejected") =>
            /\ JustSaved(r)
            /\ Len(runs[r].reading.generatedMessages) = 3
            /\ \A i \in 1..3 :
                   runs[r].reading.generatedMessages[i] = runs[r].cards[i].message

ThreeDefaultsSaved ==
    \E r \in DOMAIN runs :
        /\ JustSaved(r)
        /\ runs[r].mode = "three"
        /\ runs[r].text = "rejected"
        /\ runs[r].reading.generatedMessages =
               <<Card(1).message, Card(2).message, Card(3).message>>

\* the run whose content the modal shows: the one begun last
Shown == runs[Len(runs)]

\* C25: in single mode, once the text call has settled the message is no longer
\* shown as loading, even while the image call is pending, and once the image
\* call has settled the image is no longer shown as loading, even while the
\* text call is pending.
CallsShownIndependently ==
    (Len(runs) > 0 /\ Shown.mode = "single") =>
        /\ Shown.text # "pending" => ~modal.isMessageLoading
        /\ Shown.image # "pending" => ~modal.isImageLoading

\* C27: a run issues at most one text request and at most one image request,
\* whether the calls succeed or fail; a failed call takes its fallback and
\* nothing is fetched again until generateAllContent is called anew.
NoCallRetried ==
    \A r \in DOMAIN runs :
        /\ runs[r].textRequests <= 1
        /\ runs[r].imageRequests <= 1
        /\ runs[r].mode = "three" => runs[r].imageRequests = 0

FailedOnceThenSaved ==
    \E r \in DOMAIN runs :
        /\ JustSaved(r)
        /\ runs[r].mode = "single"
        /\ runs[r].text = "rejected"
        /\ runs[r].image = "rejected"
        /\ runs[r].textRequests = 1
        /\ runs[r].imageRequests = 1

\* C28: when the requests of a run fail at the fetch boundary, the run sets
\* the error state, in single mode as in three mode.
FailedRunSetsError ==
    \A r \in DOMAIN runs :
        (/\ runs[r].saved > 0
         /\ runs[r].text = "rejected"
         /\ runs[r].image \in {"rejected", "none"})
        => runs[r].erred /\ modal.error = ErrorText

\* the r-th run has begun and has not ended
InFlight(r) == r \in DOMAIN runs /\ runs[r].mode # "ended" /\ runs[r].saved = 0

\* the r-th run has just called saveReading
Saved(r) == r \in DOMAIN runs /\ runs[r].saved = 1

\* C24: every run of generateAllContent eventually calls saveReading, once,
\* whatever the outcomes of its calls, and only when every call it issued has
\* settled; a run that has ended does nothing more.
EveryRunSavesOnce ==
    /\ [](\A r \in DOMAIN runs :
             /\ runs[r].saved <= 1
             /\ runs[r].saved = 1 =>
                    runs[r].text # "pending" /\ runs[r].image # "pending")
    /\ [][\A r \in DOMAIN runs : runs[r].mode = "ended" => runs'[r] = Ended]_vars
    /\ \A r \in 1..MaxRuns : InFlight(r) ~> Saved(r)

SavedAfterPartialFailure ==
    \E r \in DOMAIN runs :
        /\ JustSaved(r)
        /\ runs[r].mode = "single"
        /\ runs[r].text = "resolved"
        /\ runs[r].image = "rejected"
        /\ runs[r].saved = 1

\* the draws of a session
Draws == {<<Card(1)>>, <<Card(1), Card(2), Card(3)>>}

\* C26: a run that is in flight when the modal is closed is not aborted: it
\* still calls saveReading, with the mode and the cards it began with.
ClosedRunStillSaves ==
    \A r \in 1..MaxRuns, draw \in Draws :
        (InFlight(r) /\ ~app.isModalOpen /\ runs[r].cards = draw)
        ~> (/\ Saved(r)
            /\ runs[r].reading.cards = draw
            /\ runs[r].reading.mode = IF Len(draw) = 1 THEN "single" ELSE "three")

SavedAfterReset ==
    \E r \in DOMAIN runs :
        /\ JustSaved(r)
        /\ ~app.isModalOpen
        /\ app.selectedCards = <<>>
        /\ runs[r].reading.mode = "single"
        /\ runs[r].reading.cards = <<Card(1)>>

AttemptsMoveByOne ==
    [][(/\ lastMonitor'.action \in MonitorActions
        /\ lastMonitor'.ip \notin BLOCKED_IPS)
       => LET ip == lastMonitor'.ip
              attempts == SUSPICIOUS_IPS[ip].attempts
          IN  IF lastMonitor'.action = "success"
              THEN /\ SUSPICIOUS_IPS'[ip].attempts = Max(0, attempts - 1)
                   /\ BLOCKED_IPS' = BLOCKED_IPS
                   /\ SUSPICIOUS_IPS'[ip].blocked => SUSPICIOUS_IPS[ip].blocked
              ELSE SUSPICIOUS_IPS'[ip].attempts = attempts + 1]_vars

\* the attempt count a monitorIP call starts from: the stored count, or zero
\* when the address's last call is more than BLOCK_DURATION ago
CountWithinHour(ip) ==
    IF now - SUSPICIOUS_IPS[ip].lastAttempt > BLOCK_DURATION THEN 0
    ELSE SUSPICIOUS_IPS[ip].attempts

\* C32 amended: the count moves by one from the count of the current hour: a
\* call made more than BLOCK_DURATION after the address's last call starts
\* from zero, so 'success' leaves zero and 'failure' or 'suspicious' leave one.
AttemptsMoveByOneWithinHour ==
    [][(/\ lastMonitor'.action \in MonitorActions
        /\ lastMonitor'.ip \notin BLOCKED_IPS)
       => LET ip == lastMonitor'.ip
          IN  IF lastMonitor'.action = "success"
              THEN /\ SUSPICIOUS_IPS'[ip].attempts = Max(0, CountWithinHour(ip) - 1)
                   /\ BLOCKED_IPS' = BLOCKED_IPS
                   /\ SUSPICIOUS_IPS'[ip].blocked => SUSPICIOUS_IPS[ip].blocked
              ELSE SUSPICIOUS_IPS'[ip].attempts = CountWithinHour(ip) + 1]_vars

SuccessLoweredLaterHour ==
    /\ lastMonitor.action = "success"
    /\ ~lastMonitor.blocked
    /\ lastMonitor.ip \notin BLOCKED_IPS
    /\ SUSPICIOUS_IPS[lastMonitor.ip].attempts > 0
    /\ now > BLOCK_DURATION

EntryWithinLimit ==
    /\ [](\A ip \in Clients :
              rateLimitMap[ip].present =>
                  /\ 1 <= rateLimitMap[ip].count
                  /\ rateLimitMap[ip].count <= RATE_LIMIT(handler))
    /\ [][lastReq'.status = 429 => rateLimitMap' = rateLimitMap]_vars

DeniedAtFullCount ==
    /\ lastReq.method = "POST"
    /\ lastReq.status = 429
    /\ rateLimitMap[lastReq.ip].count = RATE_LIMIT(handler)
    /\ window[lastReq.ip].seen > RATE_LIMIT(handler) + 1
    /\ now <= rateLimitMap[lastReq.ip].resetTime

\* C35: the rate limiter runs before the validator: a request answered 400
\* has taken one unit of its client's window (a new window with count 1, or the
\* count raised by one), a POST request of a client whose window is used up
\* is answered 429 whatever its body, and a request answered 405 leaves the
\* window entries and the suspicion counters as they were.
LimiterBeforeValidator ==
    [][served'.op = "handler"
       => LET ip == served'.ip
              entry == rateLimitMap[ip]
              open == entry.present /\ now <= entry.resetTime
          IN  /\ served'.status = 405
                    => /\ served'.method # "POST"
                       /\ rateLimitMap' = rateLimitMap
                       /\ securityLogMap' = securityLogMap
              /\ (/\ served'.method = "POST"
                  /\ open
                  /\ entry.count >= RATE_LIMIT(handler))
                    => served'.status = 429
              /\ served'.status = 400
                    => rateLimitMap'[ip] =
                           IF open THEN Entry(entry.count + 1, entry.resetTime)
                           ELSE Entry(1, now + RATE_LIMIT_WINDOW)]_vars

InvalidRequestOverLimit ==
    /\ served.op = "handler"
    /\ served.method = "POST"
    /\ served.status = 429
    /\ served.error # SuspicionDenial
    /\ ~validateRequest(handler, served.body, FreshLastIndex).isValid
    /\ rateLimitMap[served.ip].count = RATE_LIMIT(handler)

\* C36: a saveReading call that fails (its failure is caught and logged)
\* leaves the stored journal exactly as it was, and a first write that fails
\* with an error other than QuotaExceededError is not followed by a second
\* write.
FailedSaveLeavesJournal ==
    /\ [][(last'.op = "saveReading" /\ last'.logged) => storage' = storage]_vars
    /\ [](\A reading \in ReadingInputs, w2 \in WriteOutcomes :
              LET result == saveReading(storage, reading, clock, "other", w2)
              IN  /\ Len(result.attempted) <= 1
                  /\ result.storage = storage)

NonQuotaFailureKeepsJournal ==
    /\ last.op = "saveReading"
    /\ last.logged
    /\ Len(last.attempted) = 1
    /\ storage.kind = "array"
    /\ Len(storage.value) > 0

\* C37: whenever the reading modal is open the selection is not empty.
OpenModalHasSelection == app.isModalOpen => app.selectedCards # <<>>

Distinct(cards) ==
    \A j, k \in 1..Len(cards) : cards[j].id = cards[k].id => j = k

\* C38: the selection fits the reading mode (at most one card in single
\* mode; at most three cards, no two with the same id, in three mode), and
\* every generation run is started with one card and mode single or with three
\* distinct cards and mode three.
SelectionFitsMode ==
    /\ app.readingMode = "single" => Len(app.selectedCards) <= 1
    /\ app.readingMode = "three" =>
           /\ Len(app.selectedCards) <= 3
           /\ Distinct(app.selectedCards)
    /\ \A r \in DOMAIN runs :
           \/ runs[r].mode = "single" /\ Len(runs[r].cards) = 1
           \/ /\ runs[r].mode = "three"
              /\ Len(runs[r].cards) = 3
              /\ Distinct(runs[r].cards)

ThreeDrawnAfterSingle ==
    /\ Len(runs) = 2
    /\ runs[1].mode = "single"
    /\ runs[2].mode = "three"
    /\ runs[2].cards = <<Card(3), Card(1), Card(2)>>
    /\ app.isModalOpen
    /\ app.selectedCards = runs[2].cards

\* C39: whenever, the modal being closed, the stored journal holds a reading
\* that App's readings snapshot lacks, the snapshot comes to equal the journal,
\* the user doing nothing further.
SnapshotCatchesUp ==
    (~app.isModalOpen /\ app.readings # Persisted) ~> (app.readings = Persisted)

====
